---- MODULE Spec2Model ----
(***************************************************************************)
(* Model of the infection-game simulation core: Ball (entity physics and   *)
(* health state machine), CurvyLine (containment line) and GameInstance    *)
(* (the owner of the entity set and the line set).                         *)
(*                                                                         *)
(* Numbers.  The program computes in IEEE doubles; the model computes in   *)
(* fixed point over the integers:                                          *)
(*   positions and radii   pixels                                          *)
(*   velocities            pixels per second                               *)
(*   times                 milliseconds (Date.now() and deltaTime alike)   *)
(*   unit vectors          thousandths  (NormalUnit)                       *)
(*   visual scale          hundredths   (ScaleUnit)                        *)
(* Every division rounds to the nearest integer (Round); comparisons of    *)
(* distances are made on the squares, which is exact.                      *)
(***************************************************************************)
EXTENDS Integers, Sequences, FiniteSets, TLC

----------------------------------------------------------------------------
(* Bounds of the model *)

\* number of entities (settings.ballCount)
BallCount == 2
\* frames run, plus clock steps taken, plus lines held (in the line set or
\* in progress)
MaxSteps == 4
\* |velocity| is compared with baseSpeed up to this many pixels per second
SpeedTolerance == 2

(* Fixed-point units *)
NormalUnit == 1000
ScaleUnit == 100
MsPerSecond == 1000

(* Program constants *)
COLLISION_COOLDOWN == 100
INFECTION_DURATION == 5000
\* BASE_SETTINGS.infectionDuration, the settings.infectionDuration every
\* GameInstance is constructed with; milliseconds
infectionDuration == 10000

MIN_POINT_DISTANCE == 5
DISAPPEAR_DURATION == 500

(* settings: radius and speed scale of the modelled configuration *)
BallRadius == 30
SpeedScale == 100

Null == -1

----------------------------------------------------------------------------
(* Arithmetic *)

Abs(a) == IF a < 0 THEN -a ELSE a

Sq(a) == a * a

\* a / b rounded to the nearest integer (b > 0), halves away from zero
Round(a, b) ==
    IF a >= 0 THEN (2 * a + b) \div (2 * b)
    ELSE -((2 * (-a) + b) \div (2 * b))

RECURSIVE SqrtSearch(_, _, _)
SqrtSearch(n, lo, hi) ==
    IF lo >= hi THEN lo
    ELSE LET mid == (lo + hi + 1) \div 2
         IN  IF mid * mid <= n THEN SqrtSearch(n, mid, hi)
             ELSE SqrtSearch(n, lo, mid - 1)

\* floor of the square root
FloorSqrt(n) == SqrtSearch(n, 0, 46340)

\* square root rounded to the nearest integer
Sqrt(n) ==
    LET r == FloorSqrt(n)
    IN  IF n - r * r > r THEN r + 1 ELSE r

\* Math.hypot
Hypot(a, b) == Sqrt(a * a + b * b)

Max(a, b) == IF a > b THEN a ELSE b
Min(a, b) == IF a < b THEN a ELSE b

----------------------------------------------------------------------------
(* Ball *)

\* new Ball({x, y, vx, vy, radius, speedScale}): (ux, uy) is the direction
\* (cos, sin) in thousandths; baseSpeed = hypot(vx, vy) * speedScale
NewBall(x, y, ux, uy, radius, speedScale) ==
    LET initialSpeed == Hypot(ux, uy)
        baseSpeed == Round(initialSpeed * speedScale, NormalUnit)
    IN  [x |-> x, y |-> y,
         vx |-> Round(ux * baseSpeed, initialSpeed),
         vy |-> Round(uy * baseSpeed, initialSpeed),
         radius |-> radius,
         baseSpeed |-> baseSpeed,
         color |-> "green",
         scale |-> ScaleUnit,
         targetScale |-> ScaleUnit,
         infectedTime |-> Null,
         lastCollisionTime |-> [i \in 1..MaxSteps |-> Null]]

isInfected(b) == b.color = "red"

isDead(b) == b.color = "grey"

\* radius * scale, in pixels * ScaleUnit
ScaledRadius(b) == b.radius * b.scale

getRadius(b) == Round(ScaledRadius(b), ScaleUnit)

infect(b, now) ==
    [b EXCEPT !.color = "red", !.infectedTime = now,
              !.targetScale = (12 * ScaleUnit) \div 10]

\* cure without the isInfected() test
cureAlways(b) ==
    [b EXCEPT !.color = "green", !.infectedTime = Null, !.targetScale = ScaleUnit]

cure(b) ==
    IF isInfected(b)
    THEN [b EXCEPT !.color = "green", !.infectedTime = Null,
                   !.targetScale = ScaleUnit]
    ELSE b

die(b) ==
    [b EXCEPT !.color = "grey", !.vx = 0, !.vy = 0,
              !.targetScale = (8 * ScaleUnit) \div 10]

normalizeVelocity(b) ==
    IF isDead(b) THEN b
    ELSE LET currentSpeed == Hypot(b.vx, b.vy)
         IN  IF currentSpeed = 0 THEN b
             ELSE [b EXCEPT !.vx = Round(b.vx * b.baseSpeed, currentSpeed),
                            !.vy = Round(b.vy * b.baseSpeed, currentSpeed)]

saveState(b) == [x |-> b.x, y |-> b.y, vx |-> b.vx, vy |-> b.vy]

\* deltaTime in milliseconds
updatePosition(b, deltaTime) ==
    [b EXCEPT !.x = b.x + Round(b.vx * deltaTime, MsPerSecond),
              !.y = b.y + Round(b.vy * deltaTime, MsPerSecond)]

handleWallCollisions(b, dimensions) ==
    LET hitX == b.x + b.radius > dimensions.width \/ b.x - b.radius < 0
        b1 == IF hitX
              THEN [b EXCEPT !.vx = -b.vx,
                             !.x = Max(b.radius, Min(b.x, dimensions.width - b.radius))]
              ELSE b
        hitY == b1.y + b1.radius > dimensions.height \/ b1.y - b1.radius < 0
        b2 == IF hitY
              THEN [b1 EXCEPT !.vy = -b1.vy,
                              !.y = Max(b1.radius, Min(b1.y, dimensions.height - b1.radius))]
              ELSE b1
    IN  IF hitX \/ hitY THEN normalizeVelocity(b2) ELSE b2

----------------------------------------------------------------------------
(* CurvyLine *)

\* the value null of currentLine
NoLine == [isNull |-> TRUE]

NewLine ==
    [points |-> << >>, isComplete |-> FALSE,
     isDisappearing |-> FALSE, disappearProgress |-> 0]

DistSq(x1, y1, x2, y2) == Sq(x1 - x2) + Sq(y1 - y2)

\* the spacing test of addPoint letting a point at exactly the minimum
\* spacing through
FarFromLastPointInclusive(line, x, y) ==
    LET lastPoint == line.points[Len(line.points)]
    IN  DistSq(x, y, lastPoint.x, lastPoint.y) >= Sq(MIN_POINT_DISTANCE)

\* getDistanceToLastPoint(x, y) > MIN_POINT_DISTANCE, compared on the squares
FarFromLastPoint(line, x, y) ==
    LET lastPoint == line.points[Len(line.points)]
    IN  DistSq(x, y, lastPoint.x, lastPoint.y) > Sq(MIN_POINT_DISTANCE)

addPoint(line, x, y) ==
    IF Len(line.points) = 0 \/ FarFromLastPoint(line, x, y)
    THEN [line EXCEPT !.points = Append(line.points, [x |-> x, y |-> y])]
    ELSE line

complete(line) == [line EXCEPT !.isComplete = TRUE]

startDisappearing(line) ==
    [line EXCEPT !.isDisappearing = TRUE, !.disappearProgress = 0]

\* CurvyLine.update without the isDisappearing test
lineUpdateAlways(line, deltaTime) ==
    [line EXCEPT !.disappearProgress =
                     Min(line.disappearProgress + deltaTime, DISAPPEAR_DURATION)]

\* CurvyLine.update(deltaTime), deltaTime in milliseconds
lineUpdate(line, deltaTime) ==
    IF line.isDisappearing
    THEN [line EXCEPT !.disappearProgress =
                          Min(line.disappearProgress + deltaTime, DISAPPEAR_DURATION)]
    ELSE line

\* isFullyDisappeared with > in place of >=
isFullyDisappearedStrict(line) == line.disappearProgress > DISAPPEAR_DURATION

isFullyDisappeared(line) == line.disappearProgress >= DISAPPEAR_DURATION

\* the point of segment [start, end] closest to (bx, by): the projection
\* parameter dot = num / den clamped to [0, 1]
ClosestOnSegment(start, end, bx, by) ==
    LET dx == end.x - start.x
        dy == end.y - start.y
        den == dx * dx + dy * dy
        num == (bx - start.x) * dx + (by - start.y) * dy
    IN  IF num < 0 THEN [x |-> start.x, y |-> start.y]
        ELSE IF num > den THEN [x |-> end.x, y |-> end.y]
        ELSE [x |-> start.x + Round(num * dx, den),
              y |-> start.y + Round(num * dy, den)]

\* lineLength < 1
SegmentTooShort(start, end) == DistSq(start.x, start.y, end.x, end.y) < 1

\* the loop of getCollisionInfo from segment i on; best is the closest point
\* found so far with its squared distance (dsq = Null stands for Infinity)
RECURSIVE ScanSegments(_, _, _, _)
ScanSegments(points, i, b, best) ==
    IF i > Len(points) - 1 THEN best
    ELSE IF SegmentTooShort(points[i], points[i + 1])
         THEN ScanSegments(points, i + 1, b, best)
    ELSE LET p == ClosestOnSegment(points[i], points[i + 1], b.x, b.y)
             dsq == DistSq(b.x, b.y, p.x, p.y)
         IN  IF best.dsq = Null \/ dsq < best.dsq
             THEN ScanSegments(points, i + 1, b, [dsq |-> dsq, x |-> p.x, y |-> p.y])
             ELSE ScanSegments(points, i + 1, b, best)

NoCollision ==
    [collides |-> FALSE, normal |-> [x |-> 0, y |-> 0],
     correctedX |-> 0, correctedY |-> 0]

\* distance < ballRadius with ballRadius = radius * scale, on the squares
WithinRadius(dsq, b) == dsq * Sq(ScaleUnit) < Sq(ScaledRadius(b))

\* getCollisionInfo that puts the corrected position on the far side of the
\* line
getCollisionInfoFarSide(line, b) ==
    LET closest == ScanSegments(line.points, 1, b, [dsq |-> Null, x |-> 0, y |-> 0])
    IN  IF closest.dsq = Null \/ ~WithinRadius(closest.dsq, b) THEN NoCollision
        ELSE IF closest.dsq = 0
        THEN [collides |-> TRUE, normal |-> [x |-> NormalUnit, y |-> 0],
              correctedX |-> b.x + getRadius(b), correctedY |-> b.y]
        ELSE LET dx == b.x - closest.x
                 dy == b.y - closest.y
                 dist == Sqrt(closest.dsq * Sq(ScaleUnit))
                 nx == Round(dx * ScaleUnit * NormalUnit, dist)
                 ny == Round(dy * ScaleUnit * NormalUnit, dist)
             IN  [collides |-> TRUE, normal |-> [x |-> nx, y |-> ny],
                  correctedX |-> closest.x - Round(nx * ScaledRadius(b), NormalUnit * ScaleUnit),
                  correctedY |-> closest.y - Round(ny * ScaledRadius(b), NormalUnit * ScaleUnit)]

getCollisionInfo(line, b) ==
    LET closest == ScanSegments(line.points, 1, b, [dsq |-> Null, x |-> 0, y |-> 0])
    IN  IF closest.dsq = Null \/ ~WithinRadius(closest.dsq, b) THEN NoCollision
        ELSE IF closest.dsq = 0
        THEN [collides |-> TRUE, normal |-> [x |-> NormalUnit, y |-> 0],
              correctedX |-> b.x + getRadius(b), correctedY |-> b.y]
        ELSE LET dx == b.x - closest.x
                 dy == b.y - closest.y
                 dist == Sqrt(closest.dsq * Sq(ScaleUnit))
                 nx == Round(dx * ScaleUnit * NormalUnit, dist)
                 ny == Round(dy * ScaleUnit * NormalUnit, dist)
             IN  [collides |-> TRUE, normal |-> [x |-> nx, y |-> ny],
                  correctedX |-> closest.x + Round(nx * ScaledRadius(b), NormalUnit * ScaleUnit),
                  correctedY |-> closest.y + Round(ny * ScaledRadius(b), NormalUnit * ScaleUnit)]

RECURSIVE AnySegmentWithin(_, _, _)
AnySegmentWithin(points, i, b) ==
    IF i > Len(points) - 1 THEN FALSE
    ELSE IF SegmentTooShort(points[i], points[i + 1])
         THEN AnySegmentWithin(points, i + 1, b)
    ELSE LET p == ClosestOnSegment(points[i], points[i + 1], b.x, b.y)
         IN  IF WithinRadius(DistSq(b.x, b.y, p.x, p.y), b) THEN TRUE
             ELSE AnySegmentWithin(points, i + 1, b)

\* collidesWithBall that tests the first segment only
collidesWithBallFirstSegment(line, b) ==
    AnySegmentWithin(SubSeq(line.points, 1, IF Len(line.points) > 2
                                            THEN 2 ELSE Len(line.points)),
                     1, b)

collidesWithBall(line, b) == AnySegmentWithin(line.points, 1, b)

----------------------------------------------------------------------------
(* Ball: line collisions, infection timer, update *)

isCollisionInCooldown(b, lineIndex, now) ==
    /\ b.lastCollisionTime[lineIndex] # Null
    /\ now - b.lastCollisionTime[lineIndex] < COLLISION_COOLDOWN

\* correctionDistance > radius * 2, on the squares
CorrectionTooLarge(b, collision) ==
    DistSq(collision.correctedX, collision.correctedY, b.x, b.y) > Sq(2 * b.radius)

\* handleCollisionCorrection that snaps whatever the correction distance
handleCollisionCorrectionSnaps(b, collision, originalState) ==
    [b EXCEPT !.x = collision.correctedX, !.y = collision.correctedY]

\* handleCollisionCorrection: the ball after it (rolled back, or snapped)
handleCollisionCorrection(b, collision, originalState) ==
    IF CorrectionTooLarge(b, collision)
    THEN [b EXCEPT !.x = originalState.x, !.y = originalState.y,
                   !.vx = originalState.vx, !.vy = originalState.vy]
    ELSE [b EXCEPT !.x = collision.correctedX, !.y = collision.correctedY]

handleCollisionResponse(b, collision) ==
    LET dotProduct == b.vx * collision.normal.x + b.vy * collision.normal.y
    IN  normalizeVelocity(
            [b EXCEPT !.vx = b.vx - Round(2 * dotProduct * collision.normal.x,
                                          Sq(NormalUnit)),
                      !.vy = b.vy - Round(2 * dotProduct * collision.normal.y,
                                          Sq(NormalUnit))])

\* the end of the body of the forEach of handleLineCollisions, for a
\* reported collision: the time is noted, then correction and response
resolveCollision(b, collision, index, originalState, now) ==
    LET b1 == [b EXCEPT !.lastCollisionTime[index] = now]
        b2 == handleCollisionCorrection(b1, collision, originalState)
    IN  IF CorrectionTooLarge(b1, collision) THEN b2
        ELSE handleCollisionResponse(b2, collision)

\* the body of the forEach of handleLineCollisions for the line at index
LineCollisionStep(b, line, index, originalState, now) ==
    IF isCollisionInCooldown(b, index, now) THEN b
    ELSE LET collision == getCollisionInfo(line, b)
         IN  IF ~collision.collides THEN b
             ELSE resolveCollision(b, collision, index, originalState, now)

RECURSIVE LineCollisionsFrom(_, _, _, _, _)
LineCollisionsFrom(b, lines, index, originalState, now) ==
    IF index > Len(lines) THEN b
    ELSE LineCollisionsFrom(
             LineCollisionStep(b, lines[index], index, originalState, now),
             lines, index + 1, originalState, now)

handleLineCollisions(b, lines, originalState, now) ==
    LineCollisionsFrom(b, lines, 1, originalState, now)

\* scale += (targetScale - scale) * 0.1   (pulsePhase is read by draw() only)
updateVisualEffects(b) ==
    [b EXCEPT !.scale = b.scale + Round(b.targetScale - b.scale, 10)]

\* checkInfectionStatus with > in place of >=
checkInfectionStatusStrict(b, now, coin) ==
    IF isInfected(b) /\ now - b.infectedTime > INFECTION_DURATION
    THEN IF coin THEN die(b) ELSE cure(b)
    ELSE b

\* checkInfectionStatus in which an infection that has not run its duration
\* ends in death
checkInfectionStatusEarly(b, now, coin) ==
    IF isInfected(b)
    THEN IF coin \/ now - b.infectedTime < INFECTION_DURATION
         THEN die(b) ELSE cure(b)
    ELSE b

\* coin is the outcome of Math.random() < 0.5
checkInfectionStatus(b, now, coin) ==
    IF isInfected(b) /\ now - b.infectedTime >= INFECTION_DURATION
    THEN IF coin THEN die(b) ELSE cure(b)
    ELSE b

\* Ball.update(deltaTime, dimensions, lines)
ballUpdate(b, deltaTime, dimensions, lines, now, coin) ==
    IF isDead(b) THEN b
    ELSE LET originalState == saveState(b)
             b1 == updatePosition(b, deltaTime)
             b2 == handleWallCollisions(b1, dimensions)
             b3 == handleLineCollisions(b2, lines, originalState, now)
             b4 == updateVisualEffects(b3)
             b5 == checkInfectionStatus(b4, now, coin)
         IN  normalizeVelocity(b5)

\* handleBallCollision with the speed left out of the new velocity
BounceVelocityNoSpeed(d, distance, speed) == Round(d * ScaleUnit, distance)

\* the velocities handleBallCollision assigns: along (dx, dy), each at its
\* own baseSpeed
BounceVelocity(d, distance, speed) == Round(d * ScaleUnit * speed, distance)

\* handleBallCollision that spreads the infection from this to other only
handleBallCollisionOneWay(this, other, dx, dy, now) ==
    LET other1 == IF isInfected(this) /\ ~isInfected(other)
                  THEN infect(other, now) ELSE other
        distance == Sqrt((dx * dx + dy * dy) * Sq(ScaleUnit))
    IN  IF dx = 0 /\ dy = 0 THEN <<this, other1>>
        ELSE <<[this EXCEPT !.vx = BounceVelocity(dx, distance, this.baseSpeed),
                            !.vy = BounceVelocity(dy, distance, this.baseSpeed)],
               [other1 EXCEPT !.vx = BounceVelocity(-dx, distance, other.baseSpeed),
                              !.vy = BounceVelocity(-dy, distance, other.baseSpeed)]>>

\* handleBallCollision(other, dx, dy): the pair <<this, other>> after it
handleBallCollision(this, other, dx, dy, now) ==
    LET this1 == IF ~isInfected(this) /\ isInfected(other)
                 THEN infect(this, now) ELSE this
        other1 == IF isInfected(this) /\ ~isInfected(other)
                  THEN infect(other, now) ELSE other
        distance == Sqrt((dx * dx + dy * dy) * Sq(ScaleUnit))
    IN  IF dx = 0 /\ dy = 0 THEN <<this1, other1>>
        ELSE <<[this1 EXCEPT !.vx = BounceVelocity(dx, distance, this.baseSpeed),
                             !.vy = BounceVelocity(dy, distance, this.baseSpeed)],
               [other1 EXCEPT !.vx = BounceVelocity(-dx, distance, other.baseSpeed),
                              !.vy = BounceVelocity(-dy, distance, other.baseSpeed)]>>

\* the contact test with the diameters in place of the radii
TouchingWide(this, other) ==
    DistSq(this.x, this.y, other.x, other.y) < Sq(2 * (this.radius + other.radius))

\* distance < this.radius + other.radius, on the squares
Touching(this, other) ==
    DistSq(this.x, this.y, other.x, other.y) < Sq(this.radius + other.radius)

\* checkCollisionWith without its isDead() guard
checkCollisionWithNoDeadCheck(this, other, now) ==
    IF DistSq(this.x, this.y, other.x, other.y) < Sq(this.radius + other.radius)
    THEN handleBallCollision(this, other, this.x - other.x, this.y - other.y, now)
    ELSE <<this, other>>

\* this.checkCollisionWith(other): the pair <<this, other>> after it
checkCollisionWith(this, other, now) ==
    IF isDead(this) \/ isDead(other) THEN <<this, other>>
    ELSE IF Touching(this, other)
         THEN handleBallCollision(this, other, this.x - other.x, this.y - other.y, now)
         ELSE <<this, other>>

----------------------------------------------------------------------------
(* GameInstance *)

VARIABLES
    balls,                \* GameInstance.balls: sequence of Ball records
    lines,                \* GameInstance.lines: sequence of CurvyLine records
    currentLine,          \* GameInstance.currentLine: a line record or NoLine
    isDrawing,            \* GameInstance.isDrawing
    dimensions,           \* GameInstance.dimensions
    hasStartedInfection,  \* GameInstance.hasStartedInfection
    now,                  \* Date.now(), milliseconds
    frames,               \* number of update() calls made so far
    ballsPre,             \* the entity set on entry to the latest update()
    ballsMid,             \* the entity set between the forEach(ball.update)
                          \* and the collision pass of the latest update()
                          \* (both equal balls after any other operation)
    replacedLine,         \* the line in progress that the latest operation
                          \* replaced by a new one, NoLine if it replaced none
    infectionStarted,     \* GameCanvas: gameState.infectionStarted
    infectionTimeout,     \* GameCanvas: the infection timeout is pending
    resizedSinceScheduled, \* GameCanvas: handleResize replaced the entities
                          \* while the infection timeout was pending
    highScores,           \* InfectionGame: gameState.highScores
    bestTimes,            \* InfectionGame: gameState.bestTimes
    storedHighScores,     \* localStorage item 'highScores'
    storedBestTimes,      \* localStorage item 'bestTimes'
    leaderboardLoaded,    \* InfectionGame: the mount effect has run
    loadErrorLogged,      \* InfectionGame: loadLeaderboard caught an error
                          \* and wrote it to the console
    currentScore,         \* InfectionGame: gameState.currentScore as the
                          \* handlers of the latest render hold it
    isGameOver,           \* InfectionGame: gameState.isGameOver
    showNameInput,        \* InfectionGame: showNameInput
    gameTime,             \* seconds from gameStartTime to gameEndTime of the
                          \* game that ended last, Null before
    scoreAsked,           \* the value the latest handleGameOver passed to
                          \* isLeaderboardWorthy('score', .), Null before
    survivorsAtEnd        \* the survivor count the game loop computed when
                          \* the latest game ended, Null before

\* the state of the GameCanvas component kept beside the entities
canvasVars == <<infectionStarted, infectionTimeout, resizedSinceScheduled>>

\* the leaderboard of the InfectionGame component and its persisted copy
\* the game flow of the InfectionGame component
flowVars == <<currentScore, isGameOver, showNameInput, gameTime,
              scoreAsked, survivorsAtEnd>>

appVars == <<highScores, bestTimes, storedHighScores, storedBestTimes,
             leaderboardLoaded, loadErrorLogged,
             currentScore, isGameOver, showNameInput, gameTime,
             scoreAsked, survivorsAtEnd>>

vars == <<balls, lines, currentLine, isDrawing, dimensions,
          hasStartedInfection, now, frames, ballsPre, ballsMid, replacedLine,
          infectionStarted, infectionTimeout, resizedSinceScheduled,
          highScores, bestTimes, storedHighScores, storedBestTimes,
          leaderboardLoaded, loadErrorLogged,
          currentScore, isGameOver, showNameInput, gameTime,
          scoreAsked, survivorsAtEnd>>

(* Inputs *)

ArenaSizes == {[width |-> 200, height |-> 200]}

\* random draws of initializeBalls for one ball: position and direction
\* (cos, sin) in thousandths
Placements ==
    <<[x |-> 50, y |-> 100, ux |-> 1000, uy |-> 0],
      [x |-> 110, y |-> 100, ux |-> -1000, uy |-> 0],
      [x |-> 150, y |-> 100, ux |-> 600, uy |-> 800],
      [x |-> 100, y |-> 40, ux |-> 0, uy |-> -1000]>>

\* the draws of one initializeBalls call: balls in a row (the first two
\* touching), or balls spread out
Layouts ==
    {[i \in 1..BallCount |-> Placements[((i - 1 + s) % Len(Placements)) + 1]] :
         s \in {0, 2}}

\* pointer positions: where a drag starts, and where it moves to
StartPoints == {[x |-> 20, y |-> 145]}

DrawPoints == {[x |-> 20, y |-> 145], [x |-> 180, y |-> 145]}

\* a drag is followed until it holds this many points
MaxPoints == Cardinality(DrawPoints)

DeltaTimes == {DISAPPEAR_DURATION \div 2}

\* Date.now() advances in steps of this many milliseconds
ClockStep == INFECTION_DURATION \div 2

\* initializeBalls with the random draws given by placement
initializeBalls(placement) ==
    [i \in 1..BallCount |->
        cure(NewBall(placement[i].x, placement[i].y,
                     placement[i].ux, placement[i].uy, BallRadius, SpeedScale))]

\* the collision pass of update(): checkCollisionWith for every pair i < j,
\* in the order of the nested loops
RECURSIVE CollisionPassFrom(_, _, _, _)
CollisionPassFrom(bs, i, j, t) ==
    IF i > Len(bs) THEN bs
    ELSE IF j > Len(bs) THEN CollisionPassFrom(bs, i + 1, i + 2, t)
    ELSE LET pair == checkCollisionWith(bs[i], bs[j], t)
         IN  CollisionPassFrom([bs EXCEPT ![i] = pair[1], ![j] = pair[2]],
                               i, j + 1, t)

CollisionPass(bs, t) == CollisionPassFrom(bs, 1, 2, t)

\* this.lines.filter(...): disappearing lines advance and are dropped once
\* fully disappeared
RECURSIVE UpdateLines(_, _)
UpdateLines(ls, deltaTime) ==
    IF ls = << >> THEN << >>
    ELSE LET line == lineUpdate(Head(ls), deltaTime)
             rest == UpdateLines(Tail(ls), deltaTime)
         IN  IF line.isDisappearing /\ isFullyDisappeared(line)
             THEN rest
             ELSE <<line>> \o rest

\* checkGameOver without the hasStartedInfection guard
checkGameOverNoGuard ==
    LET hasInfectedBalls == \E i \in 1..Len(balls) : isInfected(balls[i])
        hasSomeDead == \E i \in 1..Len(balls) : isDead(balls[i])
        survivors == Cardinality({i \in 1..Len(balls) : ~isDead(balls[i])})
    IN  [isOver |-> ~hasInfectedBalls /\ (hasSomeDead \/ survivors = Len(balls)),
         survivors |-> survivors]

\* checkGameOver that ends the game only after a death
checkGameOverDeathsOnly ==
    IF ~hasStartedInfection
    THEN [isOver |-> FALSE, survivors |-> Len(balls)]
    ELSE LET hasInfectedBalls == \E i \in 1..Len(balls) : isInfected(balls[i])
             hasSomeDead == \E i \in 1..Len(balls) : isDead(balls[i])
             survivors == Cardinality({i \in 1..Len(balls) : ~isDead(balls[i])})
         IN  [isOver |-> ~hasInfectedBalls /\ hasSomeDead,
              survivors |-> survivors]

\* checkGameOver that counts the Healthy entities only
checkGameOverHealthyOnly ==
    IF ~hasStartedInfection
    THEN [isOver |-> FALSE, survivors |-> Len(balls)]
    ELSE LET hasInfectedBalls == \E i \in 1..Len(balls) : isInfected(balls[i])
             hasSomeDead == \E i \in 1..Len(balls) : isDead(balls[i])
             survivors == Cardinality({i \in 1..Len(balls) :
                                          ~isDead(balls[i]) /\ ~isInfected(balls[i])})
         IN  [isOver |-> ~hasInfectedBalls /\ (hasSomeDead \/ survivors = Len(balls)),
              survivors |-> survivors]

\* checkGameOver that ends the game only when nobody has died
checkGameOverPerfectOnly ==
    IF ~hasStartedInfection
    THEN [isOver |-> FALSE, survivors |-> Len(balls)]
    ELSE LET hasInfectedBalls == \E i \in 1..Len(balls) : isInfected(balls[i])
             survivors == Cardinality({i \in 1..Len(balls) : ~isDead(balls[i])})
         IN  [isOver |-> ~hasInfectedBalls /\ survivors = Len(balls),
              survivors |-> survivors]

checkGameOver ==
    IF ~hasStartedInfection
    THEN [isOver |-> FALSE, survivors |-> Len(balls)]
    ELSE LET hasInfectedBalls == \E i \in 1..Len(balls) : isInfected(balls[i])
             hasSomeDead == \E i \in 1..Len(balls) : isDead(balls[i])
             survivors == Cardinality({i \in 1..Len(balls) : ~isDead(balls[i])})
         IN  [isOver |-> ~hasInfectedBalls /\ (hasSomeDead \/ survivors = Len(balls)),
              survivors |-> survivors]

----------------------------------------------------------------------------
(* InfectionGame: the leaderboard and its copy in localStorage *)

\* settings.leaderboardSize
leaderboardSize == 5

\* scores and times entered are 1 .. MaxValue
MaxValue == 3

PlayerNames == {"AAA"}

BoardTypes == {"score", "time"}

\* a leaderboard entry (the date is not modelled)
Entry(playerName, value) == [playerName |-> playerName, value |-> value]

\* a localStorage item: missing (getItem gives null), or a text that is the
\* JSON of the list entries when wellFormed and unparsable otherwise
NoItem == [present |-> FALSE, wellFormed |-> FALSE, entries |-> << >>]

Malformed == [present |-> TRUE, wellFormed |-> FALSE, entries |-> << >>]

\* JSON.stringify(board)
jsonStringify(board) == [present |-> TRUE, wellFormed |-> TRUE, entries |-> board]

\* JSON.parse(item ?? '[]') throws
parseThrows(item) == item.present /\ ~item.wellFormed

\* JSON.parse(item ?? '[]') when it does not throw
jsonParse(item) == IF item.present THEN item.entries ELSE << >>

\* the sort comparator is negative: a goes before b
comesBefore(type, a, b) ==
    IF type = "score" THEN a.value > b.value ELSE a.value < b.value

\* entry e put into the sorted list, behind the entries it does not precede
RECURSIVE insertEntry(_, _, _)
insertEntry(sorted, e, type) ==
    IF sorted = << >> THEN <<e>>
    ELSE IF comesBefore(type, e, Head(sorted)) THEN <<e>> \o sorted
    ELSE <<Head(sorted)>> \o insertEntry(Tail(sorted), e, type)

\* board.sort(...): a stable sort
RECURSIVE sortBoard(_, _)
sortBoard(board, type) ==
    IF board = << >> THEN << >>
    ELSE insertEntry(sortBoard(SubSeq(board, 1, Len(board) - 1), type),
                     board[Len(board)], type)

\* addToLeaderboard without the cut to leaderboardSize
boardAfterAddUncut(board, type, entry) == sortBoard(Append(board, entry), type)

\* the list addToLeaderboard stores: push, sort, cut to leaderboardSize
boardAfterAdd(board, type, entry) ==
    LET sorted == sortBoard(Append(board, entry), type)
    IN  IF Len(sorted) > leaderboardSize
        THEN SubSeq(sorted, 1, leaderboardSize)
        ELSE sorted

\* loadLeaderboard whose catch block resets the first item only
loadLeaderboardResetsOne(hs, bt, storedHs, storedBt) ==
    IF parseThrows(storedHs) \/ parseThrows(storedBt)
    THEN [highScores |-> hs, bestTimes |-> bt, errorLogged |-> TRUE,
          storedHighScores |-> jsonStringify(<< >>),
          storedBestTimes |-> storedBt]
    ELSE [highScores |-> jsonParse(storedHs), bestTimes |-> jsonParse(storedBt),
          errorLogged |-> FALSE,
          storedHighScores |-> storedHs, storedBestTimes |-> storedBt]

\* loadLeaderboard: the lists and the items after it
loadLeaderboard(hs, bt, storedHs, storedBt) ==
    IF parseThrows(storedHs) \/ parseThrows(storedBt)
    THEN [highScores |-> hs, bestTimes |-> bt, errorLogged |-> TRUE,
          storedHighScores |-> jsonStringify(<< >>),
          storedBestTimes |-> jsonStringify(<< >>)]
    ELSE [highScores |-> jsonParse(storedHs), bestTimes |-> jsonParse(storedBt),
          errorLogged |-> FALSE,
          storedHighScores |-> storedHs, storedBestTimes |-> storedBt]

\* what localStorage may hold when the page loads: nothing, an unparsable
\* text, or a list an earlier session stored
StoredItems ==
    {NoItem, Malformed, jsonStringify(<< >>),
     jsonStringify(<<Entry("AAA", MaxValue - 1)>>)}

----------------------------------------------------------------------------
(* GameInstance: construction and operations *)

\* the GameInstance after construction, and the GameCanvas around it
GameInit ==
    /\ dimensions \in ArenaSizes
    /\ \E placement \in Layouts :
           balls = initializeBalls(placement)
    /\ lines = << >>
    /\ currentLine = NoLine
    /\ isDrawing = FALSE
    /\ hasStartedInfection = FALSE
    /\ now = 0
    /\ frames = 0
    /\ ballsPre = balls
    /\ replacedLine = NoLine
    /\ ballsMid = balls
    /\ infectionStarted = FALSE
    /\ infectionTimeout = FALSE
    /\ resizedSinceScheduled = FALSE

\* the useState initial values of InfectionGame: no game played yet
FlowInit ==
    /\ currentScore = 0
    /\ isGameOver = FALSE
    /\ showNameInput = FALSE
    /\ gameTime = Null
    /\ scoreAsked = Null
    /\ survivorsAtEnd = Null

\* a first visit: nothing stored, the leaderboard not yet loaded
Init ==
    /\ GameInit
    /\ highScores = << >>
    /\ bestTimes = << >>
    /\ storedHighScores = NoItem
    /\ storedBestTimes = NoItem
    /\ leaderboardLoaded = FALSE
    /\ loadErrorLogged = FALSE
    /\ FlowInit

\* reset that keeps the lines
ResetKeepsLines ==
    /\ currentLine' = NoLine
    /\ isDrawing' = FALSE
    /\ hasStartedInfection' = FALSE
    /\ \E placement \in Layouts :
           balls' = initializeBalls(placement)
    /\ ballsPre' = balls'
    /\ replacedLine' = NoLine
    /\ ballsMid' = balls'
    /\ UNCHANGED <<lines, dimensions, now, frames>>
    /\ UNCHANGED canvasVars
    /\ UNCHANGED appVars

Reset ==
    /\ lines' = << >>
    /\ currentLine' = NoLine
    /\ isDrawing' = FALSE
    /\ hasStartedInfection' = FALSE
    /\ \E placement \in Layouts :
           balls' = initializeBalls(placement)
    /\ ballsPre' = balls'
    /\ replacedLine' = NoLine
    /\ ballsMid' = balls'
    /\ UNCHANGED <<dimensions, now, frames>>
    /\ UNCHANGED canvasVars
    /\ UNCHANGED appVars

Resize ==
    /\ \E d \in ArenaSizes : dimensions' = d
    /\ lines' = << >>
    /\ currentLine' = NoLine
    /\ isDrawing' = FALSE
    /\ hasStartedInfection' = FALSE
    /\ \E placement \in Layouts :
           balls' = initializeBalls(placement)
    /\ ballsPre' = balls'
    /\ replacedLine' = NoLine
    /\ ballsMid' = balls'
    /\ UNCHANGED <<now, frames>>
    /\ UNCHANGED canvasVars
    /\ UNCHANGED appVars

\* startInfection without the hasStartedInfection guard
startInfectionBallsUnguarded(bs, started, k, t) ==
    IF Len(bs) > 0
    THEN [bs EXCEPT ![k] = infect(bs[k], t)]
    ELSE bs

\* startInfection infecting every entity
startInfectionBallsAll(bs, started, k, t) ==
    IF Len(bs) > 0 /\ ~started
    THEN [i \in 1..Len(bs) |-> infect(bs[i], t)]
    ELSE bs

\* startInfection(); k is Math.floor(Math.random() * balls.length) + 1
startInfectionBalls(bs, started, k, t) ==
    IF Len(bs) > 0 /\ ~started
    THEN [bs EXCEPT ![k] = infect(bs[k], t)]
    ELSE bs

\* startInfection that leaves hasStartedInfection as it was
startInfectionFlagUnset(bs, started) == started

startInfectionFlag(bs, started) ==
    IF Len(bs) > 0 /\ ~started THEN TRUE ELSE started

StartInfection ==
    /\ \E k \in 1..Len(balls) :
           balls' = startInfectionBalls(balls, hasStartedInfection, k, now)
    /\ hasStartedInfection' = startInfectionFlag(balls, hasStartedInfection)
    /\ ballsPre' = balls'
    /\ replacedLine' = NoLine
    /\ ballsMid' = balls'
    /\ UNCHANGED <<lines, currentLine, isDrawing, dimensions, now, frames>>
    /\ UNCHANGED canvasVars
    /\ UNCHANGED appVars

\* update(deltaTime, isActive) that hands the lines to the entities in
\* background mode too
updateBallsAlwaysLines(bs, deltaTime, isActive, coin) ==
    [i \in 1..Len(bs) |->
        ballUpdate(bs[i], deltaTime, dimensions, lines, now, coin[i])]

\* update(deltaTime, isActive); coin[i] is the draw of Math.random() < 0.5
\* in ball i's checkInfectionStatus
updateBalls(bs, deltaTime, isActive, coin) ==
    [i \in 1..Len(bs) |->
        ballUpdate(bs[i], deltaTime, dimensions,
                   IF isActive THEN lines ELSE << >>, now, coin[i])]

\* the coin draws of one update(): only a ball whose infection has run out
\* draws one
InfectionDue(b, t) == isInfected(b) /\ t - b.infectedTime >= INFECTION_DURATION

Coins(bs, t) ==
    {coin \in [1..Len(bs) -> BOOLEAN] :
         \A i \in 1..Len(bs) : ~InfectionDue(bs[i], t) => ~coin[i]}

\* frames run, clock steps taken and lines held so far
Steps ==
    frames + now \div ClockStep + Len(lines) + (IF isDrawing THEN 1 ELSE 0)

Update ==
    /\ Steps < MaxSteps
    /\ \E deltaTime \in DeltaTimes, isActive \in BOOLEAN,
          coin \in Coins(balls, now) :
           /\ ballsPre' = balls
           /\ replacedLine' = NoLine
           /\ ballsMid' = updateBalls(balls, deltaTime, isActive, coin)
           /\ balls' = CollisionPass(ballsMid', now)
           /\ lines' = UpdateLines(lines, deltaTime)
    /\ frames' = frames + 1
    /\ UNCHANGED <<currentLine, isDrawing, dimensions, hasStartedInfection, now>>
    /\ UNCHANGED canvasVars
    /\ UNCHANGED appVars

\* startLine that first completes the line in progress and adds it to the
\* line set
StartLineCompletes ==
    /\ Steps < MaxSteps
    /\ \E p \in StartPoints :
           currentLine' = addPoint(NewLine, p.x, p.y)
    /\ isDrawing' = TRUE
    /\ lines' = IF isDrawing /\ currentLine # NoLine
                THEN Append(lines, complete(currentLine))
                ELSE lines
    /\ ballsPre' = balls
    /\ replacedLine' = currentLine
    /\ ballsMid' = balls
    /\ UNCHANGED <<balls, dimensions, hasStartedInfection, now, frames>>
    /\ UNCHANGED canvasVars
    /\ UNCHANGED appVars

StartLine ==
    /\ Steps < MaxSteps
    /\ \E p \in StartPoints :
           currentLine' = addPoint(NewLine, p.x, p.y)
    /\ isDrawing' = TRUE
    /\ ballsPre' = balls
    /\ replacedLine' = currentLine
    /\ ballsMid' = balls
    /\ UNCHANGED <<balls, lines, dimensions, hasStartedInfection, now, frames>>
    /\ UNCHANGED canvasVars
    /\ UNCHANGED appVars

\* the breach test of updateLine without the isDead() filter
touchingAnyBall(line) ==
    \E i \in 1..Len(balls) : collidesWithBall(line, balls[i])

\* updateLine(x, y)
touchingActiveBall(line) ==
    \E i \in 1..Len(balls) : ~isDead(balls[i]) /\ collidesWithBall(line, balls[i])

\* the value updateLine(p.x, p.y) returns
updateLineReturns(p) ==
    IF ~isDrawing \/ currentLine = NoLine
    THEN FALSE
    ELSE touchingActiveBall(addPoint(currentLine, p.x, p.y))

\* updateLine that, on a breach, leaves the line in progress
UpdateLineKeepsDrawing ==
    /\ \E p \in DrawPoints :
           IF ~isDrawing \/ currentLine = NoLine
           THEN UNCHANGED <<lines, currentLine, isDrawing>>
           ELSE /\ Len(currentLine.points) < MaxPoints
                /\ LET line == addPoint(currentLine, p.x, p.y)
                   IN  IF touchingActiveBall(line)
                       THEN /\ lines' = Append(lines, startDisappearing(line))
                            /\ currentLine' = startDisappearing(line)
                            /\ UNCHANGED isDrawing
                       ELSE /\ currentLine' = line
                            /\ UNCHANGED <<lines, isDrawing>>
    /\ ballsPre' = balls
    /\ replacedLine' = NoLine
    /\ ballsMid' = balls
    /\ UNCHANGED <<balls, dimensions, hasStartedInfection, now, frames>>
    /\ UNCHANGED canvasVars
    /\ UNCHANGED appVars

UpdateLine ==
    /\ \E p \in DrawPoints :
           IF ~isDrawing \/ currentLine = NoLine
           THEN UNCHANGED <<lines, currentLine, isDrawing>>
           ELSE /\ Len(currentLine.points) < MaxPoints
                /\ LET line == addPoint(currentLine, p.x, p.y)
                   IN  IF touchingActiveBall(line)
                       THEN /\ isDrawing' = FALSE
                            /\ lines' = Append(lines, startDisappearing(line))
                            /\ currentLine' = NoLine
                       ELSE /\ currentLine' = line
                            /\ UNCHANGED <<lines, isDrawing>>
    /\ ballsPre' = balls
    /\ replacedLine' = NoLine
    /\ ballsMid' = balls
    /\ UNCHANGED <<balls, dimensions, hasStartedInfection, now, frames>>
    /\ UNCHANGED canvasVars
    /\ UNCHANGED appVars

\* endLine that completes a line also when none is in progress
EndLineUnguarded ==
    /\ lines' = Append(lines, complete(IF currentLine = NoLine
                                       THEN NewLine ELSE currentLine))
    /\ isDrawing' = FALSE
    /\ currentLine' = NoLine
    /\ ballsPre' = balls
    /\ replacedLine' = NoLine
    /\ ballsMid' = balls
    /\ UNCHANGED <<balls, dimensions, hasStartedInfection, now, frames>>
    /\ UNCHANGED canvasVars
    /\ UNCHANGED appVars

\* endLine that leaves the completed line in currentLine
EndLineKeepsCurrent ==
    /\ IF ~isDrawing \/ currentLine = NoLine
       THEN UNCHANGED <<lines, currentLine, isDrawing>>
       ELSE /\ lines' = Append(lines, complete(currentLine))
            /\ isDrawing' = FALSE
            /\ currentLine' = complete(currentLine)
    /\ ballsPre' = balls
    /\ replacedLine' = NoLine
    /\ ballsMid' = balls
    /\ UNCHANGED <<balls, dimensions, hasStartedInfection, now, frames>>
    /\ UNCHANGED canvasVars
    /\ UNCHANGED appVars

EndLine ==
    /\ IF ~isDrawing \/ currentLine = NoLine
       THEN UNCHANGED <<lines, currentLine, isDrawing>>
       ELSE /\ lines' = Append(lines, complete(currentLine))
            /\ isDrawing' = FALSE
            /\ currentLine' = NoLine
    /\ ballsPre' = balls
    /\ replacedLine' = NoLine
    /\ ballsMid' = balls
    /\ UNCHANGED <<balls, dimensions, hasStartedInfection, now, frames>>
    /\ UNCHANGED canvasVars
    /\ UNCHANGED appVars

\* time passes between two operations
Tick ==
    /\ Steps < MaxSteps
    /\ now' = now + ClockStep
    /\ ballsPre' = balls
    /\ replacedLine' = NoLine
    /\ ballsMid' = balls
    /\ UNCHANGED <<balls, lines, currentLine, isDrawing, dimensions,
                   hasStartedInfection, frames>>
    /\ UNCHANGED canvasVars
    /\ UNCHANGED appVars

Next ==
    \/ Reset
    \/ Resize
    \/ StartInfection
    \/ Update
    \/ StartLine
    \/ UpdateLine
    \/ EndLine
    \/ Tick

Spec == Init /\ [][Next]_vars

----------------------------------------------------------------------------
(* The simulation taken up where a first frame has run and a line drawn     *)
(* from a start point to a draw point has just been breached: the state     *)
(* after update(deltaTime, true), startLine(), updateLine() on a new        *)
(* instance.  frames counts the frames run from there on.                   *)

\* the spread-out entities of Layouts after one frame: where they stand and
\* the direction they move in
MovedPlacements ==
    <<[x |-> 165, y |-> 120, ux |-> 600, uy |-> 800],
      [x |-> 100, y |-> 30, ux |-> 0, uy |-> 1000],
      [x |-> 75, y |-> 100, ux |-> 1000, uy |-> 0]>>

BreachedInit ==
    /\ dimensions \in ArenaSizes
    /\ balls = initializeBalls([i \in 1..BallCount |->
                                   MovedPlacements[((i - 1) % Len(MovedPlacements)) + 1]])
    /\ \E start \in StartPoints, p \in DrawPoints :
           LET line == addPoint(addPoint(NewLine, start.x, start.y), p.x, p.y)
           IN  /\ \E i \in 1..Len(balls) :
                      ~isDead(balls[i]) /\ collidesWithBall(line, balls[i])
               /\ lines = <<startDisappearing(line)>>
    /\ currentLine = NoLine
    /\ isDrawing = FALSE
    /\ hasStartedInfection = FALSE
    /\ now = 0
    /\ frames = 0
    /\ ballsPre = balls
    /\ replacedLine = NoLine
    /\ ballsMid = balls
    /\ infectionStarted = FALSE
    /\ infectionTimeout = FALSE
    /\ resizedSinceScheduled = FALSE
    /\ highScores = << >>
    /\ bestTimes = << >>
    /\ storedHighScores = NoItem
    /\ storedBestTimes = NoItem
    /\ leaderboardLoaded = FALSE
    /\ loadErrorLogged = FALSE
    /\ FlowInit

BreachedSpec == BreachedInit /\ [][Next]_vars

----------------------------------------------------------------------------
(* The Ball operations called one at a time on the entities of a freshly    *)
(* constructed instance: infect(), cure(), die(), update() and              *)
(* checkCollisionWith() are public methods of Ball.                         *)

\* the entities the operations are called on
BallPair == {1, 2}

\* frames run plus clock steps taken in these runs
BallBudget == MaxSteps - 2

BallInfect ==
    /\ \E i \in BallPair :
           balls' = [balls EXCEPT ![i] = infect(balls[i], now)]
    /\ ballsPre' = balls'
    /\ replacedLine' = NoLine
    /\ ballsMid' = balls'
    /\ UNCHANGED <<lines, currentLine, isDrawing, dimensions,
                   hasStartedInfection, now, frames>>
    /\ UNCHANGED canvasVars
    /\ UNCHANGED appVars

BallCure ==
    /\ \E i \in BallPair :
           balls' = [balls EXCEPT ![i] = cure(balls[i])]
    /\ ballsPre' = balls'
    /\ replacedLine' = NoLine
    /\ ballsMid' = balls'
    /\ UNCHANGED <<lines, currentLine, isDrawing, dimensions,
                   hasStartedInfection, now, frames>>
    /\ UNCHANGED canvasVars
    /\ UNCHANGED appVars

BallDie ==
    /\ \E i \in BallPair :
           balls' = [balls EXCEPT ![i] = die(balls[i])]
    /\ ballsPre' = balls'
    /\ replacedLine' = NoLine
    /\ ballsMid' = balls'
    /\ UNCHANGED <<lines, currentLine, isDrawing, dimensions,
                   hasStartedInfection, now, frames>>
    /\ UNCHANGED canvasVars
    /\ UNCHANGED appVars

BallUpdate ==
    /\ Steps < BallBudget
    /\ \E i \in BallPair, deltaTime \in DeltaTimes, coin \in BOOLEAN :
           balls' = [balls EXCEPT ![i] =
                        ballUpdate(balls[i], deltaTime, dimensions, lines, now, coin)]
    /\ frames' = frames + 1
    /\ ballsPre' = balls
    /\ replacedLine' = NoLine
    /\ ballsMid' = balls'
    /\ UNCHANGED <<lines, currentLine, isDrawing, dimensions,
                   hasStartedInfection, now>>
    /\ UNCHANGED canvasVars
    /\ UNCHANGED appVars

BallCheckCollision ==
    /\ \E i, j \in BallPair :
           /\ i # j
           /\ LET pair == checkCollisionWith(balls[i], balls[j], now)
              IN  balls' = [balls EXCEPT ![i] = pair[1], ![j] = pair[2]]
    /\ ballsPre' = balls
    /\ replacedLine' = NoLine
    /\ ballsMid' = balls
    /\ UNCHANGED <<lines, currentLine, isDrawing, dimensions,
                   hasStartedInfection, now, frames>>
    /\ UNCHANGED canvasVars
    /\ UNCHANGED appVars

BallTick ==
    /\ Steps < BallBudget
    /\ now' = now + ClockStep
    /\ ballsPre' = balls
    /\ replacedLine' = NoLine
    /\ ballsMid' = balls
    /\ UNCHANGED <<balls, lines, currentLine, isDrawing, dimensions,
                   hasStartedInfection, frames>>
    /\ UNCHANGED canvasVars
    /\ UNCHANGED appVars

BallNext ==
    \/ BallInfect
    \/ BallCure
    \/ BallDie
    \/ BallUpdate
    \/ BallCheckCollision
    \/ BallTick

BallSpec == Init /\ [][BallNext]_vars

----------------------------------------------------------------------------
(* GameCanvas: the component that owns the entities in ballsRef, runs the   *)
(* frame loop and holds the infection timeout.  gameState.infectionStarted  *)
(* is set and cleared by the props of the component.                        *)

\* initializeBalls(dimensions, settings, particleSystem) of GameCanvas, with
\* the random draws given by placement; BASE_SPEED * settings.speedScale is
\* the speed SpeedScale of the modelled configuration
canvasInitializeBalls(placement) ==
    [i \in 1..BallCount |->
        cure(NewBall(placement[i].x, placement[i].y,
                     placement[i].ux, placement[i].uy, BallRadius, SpeedScale))]

\* gameState.infectionStarted becomes true: the loop callback changes, so the
\* initializing effect runs again, and the game-state effect clears the
\* lines, cures every entity and schedules the infection timeout
CanvasStartGame ==
    /\ ~infectionStarted
    /\ infectionStarted' = TRUE
    /\ \E placement \in Layouts :
           balls' = [i \in 1..BallCount |->
                        cure(canvasInitializeBalls(placement)[i])]
    /\ lines' = << >>
    /\ currentLine' = NoLine
    /\ isDrawing' = FALSE
    /\ infectionTimeout' = TRUE
    /\ resizedSinceScheduled' = FALSE
    /\ ballsPre' = balls'
    /\ replacedLine' = NoLine
    /\ ballsMid' = balls'
    /\ UNCHANGED <<dimensions, hasStartedInfection, now, frames>>
    /\ UNCHANGED appVars

\* gameState.infectionStarted becomes false, or the component unmounts: the
\* cleanup of the game-state effect clears the timeout
CanvasStopGame ==
    /\ infectionStarted
    /\ infectionStarted' = FALSE
    /\ infectionTimeout' = FALSE
    /\ resizedSinceScheduled' = FALSE
    /\ ballsPre' = balls
    /\ replacedLine' = NoLine
    /\ ballsMid' = balls
    /\ UNCHANGED <<balls, lines, currentLine, isDrawing, dimensions,
                   hasStartedInfection, now, frames>>
    /\ UNCHANGED appVars

\* handleResize: new dimensions and a new entity set; the timeout is not
\* touched
CanvasHandleResize ==
    /\ \E d \in ArenaSizes : dimensions' = d
    /\ \E placement \in Layouts :
           balls' = canvasInitializeBalls(placement)
    /\ resizedSinceScheduled' = infectionTimeout
    /\ ballsPre' = balls'
    /\ replacedLine' = NoLine
    /\ ballsMid' = balls'
    /\ UNCHANGED <<lines, currentLine, isDrawing, hasStartedInfection, now,
                   frames, infectionStarted, infectionTimeout>>
    /\ UNCHANGED appVars

\* the timeout fires: a random entity of ballsRef.current is infected
CanvasTimeout ==
    /\ infectionTimeout
    /\ infectionTimeout' = FALSE
    /\ resizedSinceScheduled' = FALSE
    /\ IF Len(balls) > 0
       THEN \E k \in 1..Len(balls) :
                balls' = [balls EXCEPT ![k] = infect(balls[k], now)]
       ELSE UNCHANGED balls
    /\ ballsPre' = balls'
    /\ replacedLine' = NoLine
    /\ ballsMid' = balls'
    /\ UNCHANGED <<lines, currentLine, isDrawing, dimensions,
                   hasStartedInfection, now, frames, infectionStarted>>
    /\ UNCHANGED appVars

\* gameLoop: every entity updates, against the lines only while the game
\* runs, then the collision pass
CanvasGameLoop ==
    /\ Steps < MaxSteps
    /\ \E deltaTime \in DeltaTimes, coin \in Coins(balls, now) :
           /\ ballsPre' = balls
           /\ replacedLine' = NoLine
           /\ ballsMid' = updateBalls(balls, deltaTime, infectionStarted, coin)
           /\ balls' = CollisionPass(ballsMid', now)
    /\ frames' = frames + 1
    /\ UNCHANGED <<lines, currentLine, isDrawing, dimensions,
                   hasStartedInfection, now>>
    /\ UNCHANGED canvasVars
    /\ UNCHANGED appVars

CanvasTick ==
    /\ Steps < MaxSteps
    /\ now' = now + ClockStep
    /\ ballsPre' = balls
    /\ replacedLine' = NoLine
    /\ ballsMid' = balls
    /\ UNCHANGED <<balls, lines, currentLine, isDrawing, dimensions,
                   hasStartedInfection, frames>>
    /\ UNCHANGED canvasVars
    /\ UNCHANGED appVars

CanvasNext ==
    \/ CanvasStartGame
    \/ CanvasStopGame
    \/ CanvasHandleResize
    \/ CanvasTimeout
    \/ CanvasGameLoop
    \/ CanvasTick

CanvasSpec == Init /\ [][CanvasNext]_vars

----------------------------------------------------------------------------
(* Ball.update() against one line whose collision report is given: the      *)
(* correction and response of handleLineCollisions as a function of the     *)
(* CollisionInfo they receive.                                               *)

\* corrected positions relative to the entity, with the normal reported:
\* shorter than, equal to, and longer than twice the radius
CorrectionOffsets ==
    {[dx |-> 0, dy |-> -(BallRadius \div 2), nx |-> 0, ny |-> -NormalUnit],
     [dx |-> 2 * BallRadius, dy |-> 0, nx |-> NormalUnit, ny |-> 0],
     [dx |-> 0, dy |-> -(2 * BallRadius + 1), nx |-> 0, ny |-> -NormalUnit],
     [dx |-> 3 * BallRadius, dy |-> 0, nx |-> NormalUnit, ny |-> 0]}

\* the CollisionInfo that puts the corrected position at offset from b
Reported(offset, b) ==
    [collides |-> TRUE, normal |-> [x |-> offset.nx, y |-> offset.ny],
     correctedX |-> b.x + offset.dx, correctedY |-> b.y + offset.dy]

\* Ball.update(deltaTime, dimensions, [line]) for a line whose
\* getCollisionInfo reports the corrected position at offset from the ball
ballUpdateReported(b, deltaTime, dims, offset, t, coin) ==
    IF isDead(b) THEN b
    ELSE LET originalState == saveState(b)
             b1 == updatePosition(b, deltaTime)
             b2 == handleWallCollisions(b1, dims)
             collision == Reported(offset, b2)
             b3 == IF isCollisionInCooldown(b2, 1, t) \/ ~collision.collides
                   THEN b2
                   ELSE resolveCollision(b2, collision, 1, originalState, t)
             b4 == updateVisualEffects(b3)
             b5 == checkInfectionStatus(b4, t, coin)
         IN  normalizeVelocity(b5)

BallUpdateReported ==
    /\ Steps <= BallBudget
    /\ \E i \in BallPair, deltaTime \in DeltaTimes, coin \in BOOLEAN,
          offset \in CorrectionOffsets :
           balls' = [balls EXCEPT ![i] =
                        ballUpdateReported(balls[i], deltaTime, dimensions,
                                           offset, now, coin)]
    /\ frames' = frames + 1
    /\ ballsPre' = balls
    /\ replacedLine' = NoLine
    /\ ballsMid' = balls'
    /\ UNCHANGED <<lines, currentLine, isDrawing, dimensions,
                   hasStartedInfection, now>>
    /\ UNCHANGED canvasVars
    /\ UNCHANGED appVars

CorrectionTick ==
    /\ Steps <= BallBudget
    /\ now' = now + ClockStep
    /\ ballsPre' = balls
    /\ replacedLine' = NoLine
    /\ ballsMid' = balls
    /\ UNCHANGED <<balls, lines, currentLine, isDrawing, dimensions,
                   hasStartedInfection, frames>>
    /\ UNCHANGED canvasVars
    /\ UNCHANGED appVars

CorrectionNext ==
    \/ BallUpdateReported
    \/ CorrectionTick

CorrectionSpec == Init /\ [][CorrectionNext]_vars

----------------------------------------------------------------------------
(* CurvyLine: the two collision queries, as drawing and frames apply them *)

\* lines drawn by addPoint over one, two, three and four offered points; the
\* second point offered to the first line is within the spacing and dropped
DrawnLines ==
    { addPoint(addPoint(NewLine, 20, 20), 22, 22),
      addPoint(addPoint(NewLine, 20, 145), 180, 145),
      addPoint(addPoint(NewLine, 100, 0), 100, 200),
      addPoint(addPoint(addPoint(NewLine, 50, 190), 190, 190), 190, 50),
      addPoint(addPoint(addPoint(addPoint(NewLine, 0, 0), 10, 60), 120, 60),
               200, 200) }

\* update() while fewer than BallBudget frames have run
QueryUpdate ==
    /\ frames < BallBudget
    /\ Update

\* drawing asks collidesWithBall, a frame asks getCollisionInfo
QueryNext ==
    \/ StartInfection
    \/ QueryUpdate
    \/ StartLine
    \/ UpdateLine
    \/ EndLine

QuerySpec == Init /\ [][QueryNext]_vars

----------------------------------------------------------------------------
(* InfectionGame: the leaderboard handlers on their own *)

gameVars == <<balls, lines, currentLine, isDrawing, dimensions,
              hasStartedInfection, now, frames, ballsPre, ballsMid, replacedLine>>

AppInit ==
    /\ GameInit
    /\ highScores = << >>
    /\ bestTimes = << >>
    /\ storedHighScores \in StoredItems
    /\ storedBestTimes \in StoredItems
    /\ leaderboardLoaded = FALSE
    /\ loadErrorLogged = FALSE
    /\ FlowInit

\* the mount effect
LoadLeaderboard ==
    /\ ~leaderboardLoaded
    /\ leaderboardLoaded' = TRUE
    /\ LET after == loadLeaderboard(highScores, bestTimes,
                                    storedHighScores, storedBestTimes)
       IN  /\ highScores' = after.highScores
           /\ bestTimes' = after.bestTimes
           /\ storedHighScores' = after.storedHighScores
           /\ storedBestTimes' = after.storedBestTimes
           /\ loadErrorLogged' = after.errorLogged
    /\ UNCHANGED gameVars
    /\ UNCHANGED canvasVars
    /\ UNCHANGED flowVars

\* addToLeaderboard(type, value, playerName)
AddToLeaderboard ==
    /\ leaderboardLoaded
    /\ \E type \in BoardTypes, value \in 1..MaxValue, playerName \in PlayerNames :
           IF type = "score"
           THEN /\ highScores' = boardAfterAdd(highScores, type,
                                               Entry(playerName, value))
                /\ storedHighScores' = jsonStringify(highScores')
                /\ UNCHANGED <<bestTimes, storedBestTimes>>
           ELSE /\ bestTimes' = boardAfterAdd(bestTimes, type,
                                              Entry(playerName, value))
                /\ storedBestTimes' = jsonStringify(bestTimes')
                /\ UNCHANGED <<highScores, storedHighScores>>
    /\ UNCHANGED <<leaderboardLoaded, loadErrorLogged>>
    /\ UNCHANGED gameVars
    /\ UNCHANGED canvasVars
    /\ UNCHANGED flowVars

\* handleResetLeaderboard
HandleResetLeaderboard ==
    /\ leaderboardLoaded
    /\ highScores' = << >>
    /\ bestTimes' = << >>
    /\ storedHighScores' = jsonStringify(<< >>)
    /\ storedBestTimes' = jsonStringify(<< >>)
    /\ UNCHANGED <<leaderboardLoaded, loadErrorLogged>>
    /\ UNCHANGED gameVars
    /\ UNCHANGED canvasVars
    /\ UNCHANGED flowVars

AppNext ==
    \/ LoadLeaderboard
    \/ AddToLeaderboard
    \/ HandleResetLeaderboard

AppSpec == AppInit /\ [][AppNext]_vars

----------------------------------------------------------------------------
(* InfectionGame and GameCanvas: the end of a game *)

\* isLeaderboardWorthy(type, value), on the boards of the latest render
isLeaderboardWorthy(type, value) ==
    LET board == IF type = "score" THEN highScores ELSE bestTimes
    IN  IF Len(board) < leaderboardSize THEN TRUE
        ELSE IF type = "score"
             THEN value > board[Len(board)].value
             ELSE value < board[Len(board)].value

\* startGame (the start screen's button, and resetGame behind "play again")
StartGame ==
    /\ leaderboardLoaded
    /\ \/ ~infectionStarted /\ ~isGameOver
       \/ isGameOver /\ ~showNameInput
    /\ isGameOver' = FALSE
    /\ infectionStarted' = TRUE
    /\ currentScore' = 0
    /\ gameTime' = Null
    /\ scoreAsked' = Null
    /\ survivorsAtEnd' = Null
    /\ UNCHANGED showNameInput
    /\ UNCHANGED <<highScores, bestTimes, storedHighScores, storedBestTimes,
                   leaderboardLoaded, loadErrorLogged>>
    /\ UNCHANGED <<infectionTimeout, resizedSinceScheduled>>
    /\ UNCHANGED gameVars

\* the frame of the game loop that finds the game over.  It queues the score
\* update, setGameState(prev => ({...prev, currentScore: score})), and calls
\* onGameOver(), the handleGameOver of the latest render, in the same frame;
\* the queued updates apply when the frame is done.  score is the number of
\* entities not Dead, seconds the time handleGameOver computes
HandleGameOver ==
    /\ infectionStarted
    /\ ~isGameOver
    /\ \E score \in 0..MaxValue, seconds \in 1..MaxValue :
           /\ survivorsAtEnd' = score
           /\ scoreAsked' = currentScore
           /\ gameTime' = seconds
           /\ showNameInput' =
                  IF \/ isLeaderboardWorthy("score", currentScore)
                     \/ isLeaderboardWorthy("time", seconds)
                  THEN TRUE ELSE showNameInput
           /\ currentScore' = score
    /\ isGameOver' = TRUE
    /\ infectionStarted' = FALSE
    /\ UNCHANGED <<highScores, bestTimes, storedHighScores, storedBestTimes,
                   leaderboardLoaded, loadErrorLogged>>
    /\ UNCHANGED <<infectionTimeout, resizedSinceScheduled>>
    /\ UNCHANGED gameVars

\* handleNameSubmit(playerName)
HandleNameSubmit ==
    /\ showNameInput
    /\ gameTime # Null
    /\ \E playerName \in PlayerNames :
           /\ IF isLeaderboardWorthy("score", currentScore)
              THEN /\ highScores' = boardAfterAdd(highScores, "score",
                                                  Entry(playerName, currentScore))
                   /\ storedHighScores' = jsonStringify(highScores')
              ELSE UNCHANGED <<highScores, storedHighScores>>
           /\ IF isLeaderboardWorthy("time", gameTime)
              THEN /\ bestTimes' = boardAfterAdd(bestTimes, "time",
                                                 Entry(playerName, gameTime))
                   /\ storedBestTimes' = jsonStringify(bestTimes')
              ELSE UNCHANGED <<bestTimes, storedBestTimes>>
    /\ showNameInput' = FALSE
    /\ UNCHANGED <<currentScore, isGameOver, gameTime, scoreAsked, survivorsAtEnd>>
    /\ UNCHANGED <<leaderboardLoaded, loadErrorLogged>>
    /\ UNCHANGED canvasVars
    /\ UNCHANGED gameVars

FlowNext ==
    \/ LoadLeaderboard
    \/ StartGame
    \/ HandleGameOver
    \/ HandleNameSubmit

FlowSpec == AppInit /\ [][FlowNext]_vars

----------------------------------------------------------------------------
(* Properties of the entities and of the simulation.  ballsPre holds the    *)
(* entities before the last operation, ballsMid the entities after the      *)
(* per-entity updates of the last update() and before its collision pass.   *)

Moved(a, b) == a.x # b.x \/ a.y # b.y \/ a.vx # b.vx \/ a.vy # b.vy

SpeedOK(b) ==
    /\ Sq(b.vx) + Sq(b.vy) >= Sq(b.baseSpeed - SpeedTolerance)
    /\ Sq(b.vx) + Sq(b.vy) <= Sq(b.baseSpeed + SpeedTolerance)

\* centers closer than the sum of the radii
CentersWithin(a, b) ==
    Sq(a.x - b.x) + Sq(a.y - b.y) < Sq(a.radius + b.radius)

\* C1: after every Ball.update() and after every update() of the simulation,
\* the speed of each entity that is not Dead equals its baseSpeed, within
\* SpeedTolerance.
C1_SpeedIsBaseSpeed ==
    \A i \in 1..Len(balls) :
        /\ balls[i].color # "grey" => SpeedOK(balls[i])
        /\ ballsMid[i].color # "grey" => SpeedOK(ballsMid[i])

\* a frame has run in which a live entity changed its velocity
C1_Witness ==
    /\ frames > 0
    /\ \E i \in 1..Len(balls) :
           /\ balls[i].color # "grey"
           /\ ballsPre[i].color # "grey"
           /\ <<balls[i].vx, balls[i].vy>> # <<ballsPre[i].vx, ballsPre[i].vy>>

\* C2: a Dead entity has velocity (0, 0), and neither the per-entity update
\* nor the collision pass of a later update() changes its position or its
\* velocity.
C2_DeadStaysStill ==
    \A i \in 1..Len(balls) :
        /\ balls[i].color = "grey" => balls[i].vx = 0 /\ balls[i].vy = 0
        /\ ballsPre[i].color = "grey" =>
               /\ ~Moved(ballsPre[i], ballsMid[i])
               /\ ~Moved(ballsPre[i], balls[i])

\* a frame has run in which a live entity moved while overlapping an entity
\* that was already Dead
C2_Witness ==
    /\ frames > 0
    /\ \E i, j \in 1..Len(balls) :
           /\ i # j
           /\ ballsPre[i].color = "grey"
           /\ ballsMid[j].color # "grey"
           /\ Moved(ballsPre[j], ballsMid[j])
           /\ CentersWithin(ballsMid[i], ballsMid[j])

\* C3: under infect(), cure(), die(), update() and checkCollisionWith(), an
\* entity that is Dead stays Dead.
C3_DeadIsTerminal ==
    [][\A i \in 1..Len(balls) :
           balls[i].color = "grey" => balls'[i].color = "grey"]_vars

\* C4: a Healthy entity becomes Infected only as the one seed of
\* startInfection(), or in the collision pass of an update() while its center
\* is within the sum of the radii of a live entity that is Infected in that
\* pass (from before it, or infected earlier in it); the per-entity update
\* infects nothing.
C4_InfectionBySeedOrContact ==
    [][\A i \in 1..Len(balls) :
           (balls[i].color = "green" /\ balls'[i].color = "red") =>
               \/ /\ ~hasStartedInfection
                  /\ hasStartedInfection'
                  /\ frames' = frames
                  /\ \A j \in 1..Len(balls) \ {i} : balls'[j] = balls[j]
               \/ /\ frames' = frames + 1
                  /\ ballsMid'[i].color = "green"
                  /\ \E j \in 1..Len(balls) \ {i} :
                         /\ balls'[j].color = "red"
                         /\ ballsMid'[j].color # "grey"
                         /\ CentersWithin(ballsMid'[i], ballsMid'[j])]_vars

\* an entity was infected by contact in the collision pass
C4_Witness ==
    /\ frames > 0
    /\ \E i \in 1..Len(balls) :
           /\ ballsPre[i].color = "green"
           /\ ballsMid[i].color = "green"
           /\ balls[i].color = "red"

\* C5: an update() run when INFECTION_DURATION or more has passed since an
\* entity was infected leaves that entity Dead or Healthy after its own
\* update, so no entity is Infected for INFECTION_DURATION or longer after an
\* update().
C5_InfectionResolves ==
    [][frames' = frames + 1 =>
           \A i \in 1..Len(balls) :
               /\ (balls[i].color = "red"
                     /\ now - balls[i].infectedTime >= INFECTION_DURATION) =>
                      ballsMid'[i].color \in {"grey", "green"}
               /\ balls'[i].color = "red" =>
                      now' - balls'[i].infectedTime < INFECTION_DURATION]_vars

\* an infection that had run its duration was resolved by the last update()
C5_Witness ==
    /\ frames > 0
    /\ \E i \in 1..Len(balls) :
           /\ ballsPre[i].color = "red"
           /\ now - ballsPre[i].infectedTime >= INFECTION_DURATION
           /\ ballsMid[i].color \in {"grey", "green"}

\* C6: while startInfection() has not taken effect in the current session,
\* checkGameOver().isOver is false.
C6_NotOverBeforeStart ==
    ~hasStartedInfection => ~checkGameOver.isOver

\* frames have run and a line is held, and no infection has started
C6_Witness ==
    /\ ~hasStartedInfection
    /\ frames > 0
    /\ now > 0
    /\ lines # << >>

\* C7: once the infection has started, isOver holds exactly when no entity is
\* Infected and either some entity is Dead or every entity is not Dead; it is
\* false whenever an entity is Infected.
C7_OverIffNoInfected ==
    hasStartedInfection =>
        LET someInfected == \E i \in 1..Len(balls) : balls[i].color = "red"
            someDead == \E i \in 1..Len(balls) : balls[i].color = "grey"
            noneDead == \A i \in 1..Len(balls) : balls[i].color # "grey"
        IN  /\ checkGameOver.isOver <=> (~someInfected /\ (someDead \/ noneDead))
            /\ someInfected => ~checkGameOver.isOver

\* the game is over after a death, with another entity alive
C7_Witness ==
    /\ hasStartedInfection
    /\ checkGameOver.isOver
    /\ \E i \in 1..Len(balls) : balls[i].color = "grey"
    /\ \E i \in 1..Len(balls) : balls[i].color = "green"

\* C8: survivors is the number of entities that are not Dead, and lies
\* between 0 and the entity count.
C8_SurvivorsCountsLive ==
    /\ checkGameOver.survivors =
           Cardinality({i \in 1..Len(balls) : balls[i].color # "grey"})
    /\ checkGameOver.survivors >= 0
    /\ checkGameOver.survivors <= BallCount

\* a Dead and an Infected entity at the same time
C8_Witness ==
    /\ hasStartedInfection
    /\ \E i \in 1..Len(balls) : balls[i].color = "grey"
    /\ \E i \in 1..Len(balls) : balls[i].color = "red"

\* C9: once startInfection() has taken effect, a later startInfection() in
\* the same session changes no entity and not the flag: for every choice it
\* could draw its result is the state it was called in, and no step other
\* than update() changes an entity while the flag stays set.
C9_StartInfectionOnce ==
    [][hasStartedInfection =>
           /\ \A k \in 1..Len(balls) :
                  startInfectionBalls(balls, hasStartedInfection, k, now) = balls
           /\ startInfectionFlag(balls, hasStartedInfection) = hasStartedInfection
           /\ (hasStartedInfection' /\ frames' = frames) => balls' = balls]_vars

\* the infection has started and a second seed would find a Healthy entity
C9_Witness ==
    /\ hasStartedInfection
    /\ now > 0
    /\ \E i \in 1..Len(balls) : balls[i].color = "red"
    /\ \E i \in 1..Len(balls) : balls[i].color = "green"

\* C10: the step in which startInfection() takes effect infects exactly one
\* entity, that entity is live when chosen, and every other entity is
\* unchanged.
C10_SeedIsOneLiveEntity ==
    [][(~hasStartedInfection /\ hasStartedInfection') =>
           \E k \in 1..Len(balls) :
               /\ balls[k].color # "grey"
               /\ balls[k].color # "red"
               /\ balls'[k].color = "red"
               /\ \A j \in 1..Len(balls) \ {k} : balls'[j] = balls[j]]_vars

\* the state right after the seed: one entity infected now, the others Healthy
C10_Witness ==
    /\ hasStartedInfection
    /\ ballsPre = balls
    /\ replacedLine = NoLine
    /\ \E k \in 1..Len(balls) :
           /\ balls[k].color = "red"
           /\ balls[k].infectedTime = now
           /\ \A j \in 1..Len(balls) \ {k} : balls[j].color = "green"

\* velocity v of an entity points along (dx, dy), up to rounding
PointsAlong(v, dx, dy) ==
    /\ v.vx * dx + v.vy * dy > 0
    /\ Abs(v.vx * dy - v.vy * dx) <= SpeedTolerance * (Abs(dx) + Abs(dy))

\* C11: checkCollisionWith on two entities changes nothing when either is
\* Dead or their centers are not closer than the sum of the radii; on two
\* non-Dead entities in contact of which exactly one is Infected it leaves
\* both Infected and, when the centers differ, gives each its own baseSpeed
\* directed away from the other along the line of centers.
C11_ContactInfectsAndSeparates ==
    \A i, j \in BallPair :
        i # j =>
            LET a == balls[i]
                b == balls[j]
                pair == checkCollisionWith(a, b, now)
                live == a.color # "grey" /\ b.color # "grey"
                oneInfected == (a.color = "red") # (b.color = "red")
            IN  /\ (~live \/ ~CentersWithin(a, b)) => pair = <<a, b>>
                /\ (live /\ CentersWithin(a, b) /\ oneInfected) =>
                       /\ pair[1].color = "red"
                       /\ pair[2].color = "red"
                       /\ (a.x # b.x \/ a.y # b.y) =>
                              /\ SpeedOK(pair[1])
                              /\ SpeedOK(pair[2])
                              /\ PointsAlong(pair[1], a.x - b.x, a.y - b.y)
                              /\ PointsAlong(pair[2], b.x - a.x, b.y - a.y)

\* the last operation was a checkCollisionWith on an Infected and a Healthy
\* entity in contact, called on the Healthy one, and it made both Infected
C11_Witness ==
    /\ ballsMid = ballsPre
    /\ \E i, j \in BallPair :
           /\ i < j
           /\ ballsPre[i].color = "green"
           /\ ballsPre[j].color = "red"
           /\ CentersWithin(ballsPre[i], ballsPre[j])
           /\ balls[i].color = "red"
           /\ balls[j].color = "red"
           /\ balls[i].vx # ballsPre[i].vx

\* line was released by endLine(): completed and not disappearing
Released(line) == line.isComplete /\ ~line.isDisappearing

\* line was breached in updateLine(): disappearing and not completed
Breached(line) == line.isDisappearing /\ ~line.isComplete

\* C12: a breach and a release exclude each other.  Every line of the line
\* set is either released or breached, never both, and the line in progress
\* is neither; a step adds at most one line, the one that was in progress,
\* and leaves no line in progress; the line operations never change a line
\* already in the set, and update() changes no line's outcome.
C12_BreachXorRelease ==
    /\ [](/\ \A k \in 1..Len(lines) : Released(lines[k]) # Breached(lines[k])
          /\ \A k \in 1..Len(lines) : lines[k].isComplete # lines[k].isDisappearing
          /\ isDrawing <=> currentLine # NoLine
          /\ currentLine # NoLine =>
                 ~currentLine.isComplete /\ ~currentLine.isDisappearing)
    /\ [][/\ Len(lines') > Len(lines) =>
                 /\ Len(lines') = Len(lines) + 1
                 /\ currentLine # NoLine
                 /\ currentLine' = NoLine
                 /\ ~isDrawing'
          /\ frames' = frames =>
                 \/ lines' = << >>
                 \/ /\ Len(lines') >= Len(lines)
                    /\ SubSeq(lines', 1, Len(lines)) = lines
          /\ frames' # frames =>
                 \A k \in 1..Len(lines') :
                     \E m \in 1..Len(lines) :
                         /\ lines'[k].points = lines[m].points
                         /\ lines'[k].isComplete = lines[m].isComplete
                         /\ lines'[k].isDisappearing = lines[m].isDisappearing]_vars

\* the line set holds a breached line and a released line
C12_Witness ==
    /\ \E k \in 1..Len(lines) : Breached(lines[k])
    /\ \E k \in 1..Len(lines) : Released(lines[k])
    /\ currentLine = NoLine

\* C13: while a line is in progress, updateLine(x, y) returns true exactly
\* when the line, after the point was offered to it, collides with an entity
\* that is not Dead; a step of updateLine that breaches stops the drawing and
\* appends the line, marked disappearing, to the line set, and one that does
\* not breach keeps the line in progress and the line set as it was.
C13_BreachIffTouchingLive ==
    /\ [](\A p \in DrawPoints :
              (isDrawing /\ currentLine # NoLine) =>
                  (updateLineReturns(p) <=>
                       \E i \in 1..Len(balls) :
                           /\ balls[i].color # "grey"
                           /\ collidesWithBall(addPoint(currentLine, p.x, p.y),
                                               balls[i])))
    /\ [][(isDrawing /\ currentLine # NoLine /\ frames' = frames) =>
              /\ Len(lines') > Len(lines) /\ lines'[Len(lines')].isDisappearing =>
                     \E p \in DrawPoints :
                         /\ updateLineReturns(p)
                         /\ lines' = Append(lines,
                                [addPoint(currentLine, p.x, p.y) EXCEPT
                                     !.isDisappearing = TRUE,
                                     !.disappearProgress = 0])
                         /\ ~isDrawing'
                         /\ currentLine' = NoLine
              /\ (isDrawing' /\ currentLine' # NoLine
                    /\ Len(currentLine'.points) > Len(currentLine.points)) =>
                     \E p \in DrawPoints :
                         /\ ~updateLineReturns(p)
                         /\ currentLine' = addPoint(currentLine, p.x, p.y)
                         /\ lines' = lines]_vars

\* a breach has happened: the last line of the set is disappearing and
\* collides with a live entity, and no line is in progress
C13_Witness ==
    /\ lines # << >>
    /\ Breached(lines[Len(lines)])
    /\ lines[Len(lines)].disappearProgress = 0
    /\ ~isDrawing
    /\ \E i \in 1..Len(balls) :
           /\ balls[i].color # "grey"
           /\ collidesWithBall(lines[Len(lines)], balls[i])

\* the lines update(deltaTime) keeps: those not disappearing, and those whose
\* time since the breach stays below DISAPPEAR_DURATION
KeptLines(deltaTime) ==
    SelectSeq(lines, LAMBDA line :
        ~line.isDisappearing
            \/ line.disappearProgress + deltaTime < DISAPPEAR_DURATION)

\* C14: a breached line enters the line set with no time elapsed; each
\* update(dt) adds dt to the time elapsed since its breach, keeps the line
\* while that sum is below DISAPPEAR_DURATION and removes it in the update()
\* at which the sum reaches it, so no disappearing line of the set has ever
\* reached the duration.
C14_BreachedLineLastsDuration ==
    /\ [](\A k \in 1..Len(lines) :
              lines[k].isDisappearing =>
                  /\ lines[k].disappearProgress >= 0
                  /\ lines[k].disappearProgress < DISAPPEAR_DURATION)
    /\ [][/\ (frames' = frames /\ Len(lines') > Len(lines)
                 /\ lines'[Len(lines')].isDisappearing) =>
                     lines'[Len(lines')].disappearProgress = 0
          /\ frames' = frames + 1 =>
                 \E deltaTime \in DeltaTimes :
                     /\ Len(lines') = Len(KeptLines(deltaTime))
                     /\ \A k \in 1..Len(lines') :
                            /\ lines'[k].points = KeptLines(deltaTime)[k].points
                            /\ lines'[k].isDisappearing =>
                                   lines'[k].disappearProgress =
                                       KeptLines(deltaTime)[k].disappearProgress
                                           + deltaTime]_vars

\* a breached line has been through an update() and is still in the set
C14_Witness ==
    /\ frames > 1
    /\ \E k \in 1..Len(lines) :
           /\ Breached(lines[k])
           /\ lines[k].disappearProgress > 0
           /\ lines[k].disappearProgress < DISAPPEAR_DURATION

\* the completed lines of a line set that are not disappearing, in order
ReleasedLines(ls) == SelectSeq(ls, Released)

\* C15: update() neither removes nor changes a completed line that is not
\* disappearing: the released lines of the set are the same, with the same
\* points and fields, before and after every frame.
C15_ReleasedLinePersists ==
    [][frames' = frames + 1 => ReleasedLines(lines') = ReleasedLines(lines)]_vars

\* frames have run since a line was released, and the line is in the set
\* with both of its points
C15_Witness ==
    /\ frames > 1
    /\ balls # ballsPre
    /\ \E k \in 1..Len(lines) :
           /\ Released(lines[k])
           /\ Len(lines[k].points) = MaxPoints

\* a step only reset() or resize() can take: outside update(), the flag is
\* withdrawn, a line leaves the line set, the line in progress is dropped
\* without entering the set, or entities change while the flag is clear
ResetStep ==
    /\ frames' = frames
    /\ \/ hasStartedInfection /\ ~hasStartedInfection'
       \/ Len(lines') < Len(lines)
       \/ isDrawing /\ ~isDrawing' /\ Len(lines') <= Len(lines)
       \/ balls' # balls /\ ~hasStartedInfection'

\* C16: after reset(), and after resize(), the simulation holds exactly
\* BallCount entities, all Healthy with no infection time, no line in the
\* set, no line in progress, the drawing flag and hasStartedInfection clear,
\* whatever the state before.
C16_ResetIsFresh ==
    [][ResetStep =>
           /\ Len(balls') = BallCount
           /\ \A i \in 1..Len(balls') :
                  /\ balls'[i].color = "green"
                  /\ balls'[i].infectedTime = Null
           /\ lines' = << >>
           /\ currentLine' = NoLine
           /\ ~isDrawing'
           /\ ~hasStartedInfection']_vars

\* after frames have run and time has passed, the entities are back at a
\* fresh placement with everything cleared
C16_Witness ==
    /\ frames > 1
    /\ now > 0
    /\ \E placement \in Layouts : balls = initializeBalls(placement)
    /\ lines = << >>
    /\ currentLine = NoLine
    /\ ~isDrawing
    /\ ~hasStartedInfection

\* C17: when the entities were replaced by a resize after the infection
\* timeout was scheduled, the step in which that timeout stops being pending
\* infects no entity.
C17_StaleTimeoutInfectsNothing ==
    [][(infectionTimeout /\ resizedSinceScheduled /\ ~infectionTimeout') =>
           \A i \in 1..Len(balls) :
               balls'[i].color = "red" => balls[i].color = "red"]_vars

\* C18: with no line in progress updateLine() returns false, and neither
\* updateLine() nor endLine() changes the line set, the line in progress or
\* the drawing flag: outside update(), a step that starts and ends with no
\* line in progress leaves the line set as it was, unless it is a reset,
\* which empties it.
C18_LineCallsGuarded ==
    /\ []((~isDrawing \/ currentLine = NoLine) =>
              \A p \in DrawPoints : ~updateLineReturns(p))
    /\ [][(~isDrawing /\ ~isDrawing' /\ frames' = frames) =>
              /\ currentLine = NoLine
              /\ currentLine' = NoLine
              /\ lines' = lines \/ lines' = << >>]_vars

\* no line is in progress and the line set holds a line, after frames
C18_Witness ==
    /\ ~isDrawing
    /\ currentLine = NoLine
    /\ frames > 0
    /\ lines # << >>
    /\ hasStartedInfection

\* C19: infect() on an entity that is already Infected changes nothing: its
\* color, infection start time and target scale stay as they were.
C19_InfectIsIdempotent ==
    \A i \in BallPair :
        balls[i].color = "red" => infect(balls[i], now) = balls[i]

\* C20: cure() on an entity that is not Infected, Healthy or Dead, changes
\* nothing; on an Infected entity it gives a Healthy entity with no infection
\* time and the target scale back at 1, at the same place with the same
\* velocity.
C20_CureOnlyInfected ==
    \A i \in BallPair :
        LET b == balls[i]
            c == cure(b)
        IN  /\ b.color # "red" => c = b
            /\ b.color = "red" =>
                   /\ c.color = "green"
                   /\ c.infectedTime = Null
                   /\ c.targetScale = ScaleUnit
                   /\ ~Moved(b, c)
                   /\ c.scale = b.scale

\* an entity cured before its infection ran out: Healthy, with no infection
\* time, still at the scale it grew to while Infected; the other entity Dead
C20_Witness ==
    /\ now < INFECTION_DURATION
    /\ \E i, j \in BallPair :
           /\ balls[i].color = "green"
           /\ balls[i].infectedTime = Null
           /\ balls[i].targetScale = ScaleUnit
           /\ balls[i].scale > ScaleUnit
           /\ balls[j].color = "grey"

----------------------------------------------------------------------------
(* Background mode, line physics, game over (C21 .. C30) *)

\* a and b agree on position and velocity
SameMotion(a, b) == a.x = b.x /\ a.y = b.y /\ a.vx = b.vx /\ a.vy = b.vy

\* the centre of b is inside the arena inset by the radius of b
InsideInset(b) ==
    /\ b.radius <= b.x /\ b.x <= dimensions.width - b.radius
    /\ b.radius <= b.y /\ b.y <= dimensions.height - b.radius

\* C21: an update(deltaTime, false) run in any reachable state gives every
\* entity the position and velocity Ball.update computes for it with an
\* empty line set, whatever lines are held; the walls still act, so a live
\* entity ends inside the arena inset by its radius.
C21_BackgroundIgnoresLines ==
    \A deltaTime \in DeltaTimes : \A coin \in Coins(balls, now) :
        LET after == updateBalls(balls, deltaTime, FALSE, coin)
        IN  \A i \in 1..Len(balls) :
                /\ SameMotion(after[i],
                              ballUpdate(balls[i], deltaTime, dimensions,
                                         << >>, now, coin[i]))
                /\ ~isDead(after[i]) => InsideInset(after[i])

\* a background update() has run over a held line that would have deflected
\* an entity in an active one
C21_Witness ==
    /\ balls # ballsPre
    /\ Len(lines) > 0
    /\ \E i \in 1..Len(balls) : \E deltaTime \in DeltaTimes :
           /\ ~isDead(ballsPre[i])
           /\ SameMotion(ballsMid[i],
                         ballUpdate(ballsPre[i], deltaTime, dimensions,
                                    << >>, now, FALSE))
           /\ ~SameMotion(ballsMid[i],
                          ballUpdate(ballsPre[i], deltaTime, dimensions,
                                     lines, now, FALSE))

\* board is in descending order of value
Descending(board) ==
    \A i \in 1..(Len(board) - 1) : board[i].value >= board[i + 1].value

\* board is in ascending order of value
Ascending(board) ==
    \A i \in 1..(Len(board) - 1) : board[i].value <= board[i + 1].value

\* C22: whatever addToLeaderboard calls have been made, each of the two
\* lists holds at most leaderboardSize entries and is sorted by value, the
\* high scores descending and the best times ascending.
C22_BoardsSortedAndCut ==
    /\ Len(highScores) <= leaderboardSize
    /\ Descending(highScores)
    /\ Len(bestTimes) <= leaderboardSize
    /\ Ascending(bestTimes)

\* both lists are full, hold different values, and are what is stored
C22_Witness ==
    /\ Len(highScores) = leaderboardSize
    /\ highScores[1].value > highScores[leaderboardSize].value
    /\ Len(bestTimes) = leaderboardSize
    /\ bestTimes[1].value < bestTimes[leaderboardSize].value
    /\ storedHighScores = jsonStringify(highScores)
    /\ storedBestTimes = jsonStringify(bestTimes)

\* C23: a loadLeaderboard that finds either stored list unparsable leaves
\* both lists in memory empty and stores an empty list under both keys, and
\* once the leaderboard has been loaded neither stored item is unparsable.
C23_FailedLoadResetsStorage ==
    /\ [](leaderboardLoaded =>
            ~parseThrows(storedHighScores) /\ ~parseThrows(storedBestTimes))
    /\ [][(/\ ~leaderboardLoaded
            /\ leaderboardLoaded'
            /\ (parseThrows(storedHighScores) \/ parseThrows(storedBestTimes)))
           => /\ highScores' = << >>
              /\ bestTimes' = << >>
              /\ storedHighScores' = jsonStringify(<< >>)
              /\ storedBestTimes' = jsonStringify(<< >>)]_vars

\* the load has failed and left empty lists in memory and in storage
C23_Witness ==
    /\ loadErrorLogged
    /\ highScores = << >>
    /\ bestTimes = << >>
    /\ storedHighScores = jsonStringify(<< >>)
    /\ storedBestTimes = jsonStringify(<< >>)

\* the line set with every disappearing line made unable to touch anything
\* (each line keeps its index)
WithoutDisappearing(ls) ==
    [k \in 1..Len(ls) |->
        IF ls[k].isDisappearing THEN [ls[k] EXCEPT !.points = << >>] ELSE ls[k]]

\* C24: in every update() the entities move as if the disappearing lines
\* were not in the line set: from its breach until its removal a line
\* changes no entity's position or velocity.
C24_DisappearingLineInert ==
    [][frames' = frames + 1 =>
          \E deltaTime \in DeltaTimes, isActive \in BOOLEAN,
             coin \in Coins(balls, now) :
              \A i \in 1..Len(balls) :
                  SameMotion(ballsMid'[i],
                             ballUpdate(balls[i], deltaTime, dimensions,
                                        IF isActive
                                        THEN WithoutDisappearing(lines)
                                        ELSE << >>,
                                        now, coin[i]))]_vars

\* the number of Infected entities
InfectedCount == Cardinality({i \in 1..Len(balls) : isInfected(balls[i])})

\* C26: once the infection has started, isOver is true in exactly the states
\* with no Infected entity: the clause about deaths and survivors never
\* changes the result, so no state with the infection started and zero
\* Infected entities has isOver false.
C26_OverIsNoInfected ==
    hasStartedInfection => (checkGameOver.isOver <=> InfectedCount = 0)

\* the infection has started and has ended with nobody dead
C26_Witness ==
    /\ hasStartedInfection
    /\ InfectedCount = 0
    /\ frames > 0
    /\ \A i \in 1..Len(balls) : ~isDead(balls[i])
    /\ checkGameOver.isOver

\* visual scales an entity passes through: at rest, and swollen by an
\* infection
VisualScales == {ScaleUnit, (12 * ScaleUnit) \div 10}

\* C28: the visual scale decides nothing: an entity of any visual scale gets
\* from collidesWithBall and from getCollisionInfo, against every held line,
\* the result an entity equal to it in everything but the scale gets.
C28_ScaleDecidesNothing ==
    \A i \in 1..Len(balls) : \A k \in 1..Len(lines) : \A scale \in VisualScales :
        LET twin == [balls[i] EXCEPT !.scale = scale]
        IN  /\ collidesWithBall(lines[k], twin) = collidesWithBall(lines[k], balls[i])
            /\ getCollisionInfo(lines[k], twin) = getCollisionInfo(lines[k], balls[i])

\* the entity b where the line collisions of its next update() find it
MovedBall(b, deltaTime) ==
    handleWallCollisions(updatePosition(b, deltaTime), dimensions)

\* the correction of collision on b is no longer than the effective radius
\* radius * scale of b (to the half pixel positions are rounded to)
CorrectionWithinRadius(b, collision) ==
    DistSq(collision.correctedX, collision.correctedY, b.x, b.y) * Sq(ScaleUnit)
        <= Sq(ScaledRadius(b) + ScaleUnit \div 2)

\* b, and b carried (as a background frame can carry it) onto the point of
\* the line's first segment closest to it
OnOrNear(b, line) ==
    IF Len(line.points) < 2 THEN {b}
    ELSE LET p == ClosestOnSegment(line.points[1], line.points[2], b.x, b.y)
         IN  {b, [b EXCEPT !.x = p.x, !.y = p.y]}

\* C30: every collision getCollisionInfo reports, for an entity where it
\* stands or where its next update() moves it, near the line or on it, at
\* rest or swollen, has its corrected position no farther from the entity
\* than the entity's effective radius; so no update() finds a correction
\* longer than twice the radius.
C30_CorrectionWithinRadius ==
    \A i \in 1..Len(balls) : \A k \in 1..Len(lines) :
        \A deltaTime \in DeltaTimes \cup {0} :
            \A scale \in VisualScales \cup {balls[i].scale} :
                \A b \in OnOrNear([MovedBall(balls[i], deltaTime)
                                       EXCEPT !.scale = scale], lines[k]) :
                    LET collision == getCollisionInfo(lines[k], b)
                    IN  collision.collides =>
                            /\ CorrectionWithinRadius(b, collision)
                            /\ ~CorrectionTooLarge(b, collision)

\* an update() has just resolved a line collision: the entity was snapped
\* off a line and carries the time of the collision
C30_Witness ==
    /\ balls # ballsPre
    /\ \E i \in 1..Len(balls) : \E k \in 1..Len(lines) :
           /\ ballsPre[i].lastCollisionTime[k] = Null
           /\ ballsMid[i].lastCollisionTime[k] = now
           /\ \E deltaTime \in DeltaTimes :
                  LET b == MovedBall(ballsPre[i], deltaTime)
                  IN  /\ getCollisionInfo(lines[k], b).collides
                      /\ ballsMid[i].y = getCollisionInfo(lines[k], b).correctedY
                      /\ ballsMid[i].y # b.y

\* C27: when update() has run, every entity that is not Dead has its centre
\* inside the arena inset by its radius, whether or not the update resolved
\* a line collision.
C27_LiveEntitiesInsideInset ==
    \A i \in 1..Len(balls) :
        /\ ~isDead(ballsMid[i]) => InsideInset(ballsMid[i])
        /\ ~isDead(balls[i]) => InsideInset(balls[i])

\* C25: the cooldown belongs to the pair of an entity and a line: whenever,
\* after an update(), an entity's responses to the line at some place of
\* the line set are suppressed, that line is the line that was at that
\* place before the update(), the one whose collision started the cooldown,
\* also when the update() removed lines from the set.
C25_CooldownFollowsLine ==
    [][frames' = frames + 1 =>
          \A i \in 1..Len(balls') : \A k \in 1..Len(lines') :
              isCollisionInCooldown(balls'[i], k, now') =>
                  /\ k <= Len(lines)
                  /\ \E deltaTime \in DeltaTimes :
                         lines'[k] = lineUpdate(lines[k], deltaTime)]_vars

\* C29: an update() whose line collision has a corrected position farther
\* than twice the radius from the entity leaves the entity (if the update
\* does not also end its infection by death) at the position and with the
\* velocity it had before the update, neither snapped to the corrected
\* position nor reflected, with the time of the collision noted.
C29_LargeCorrectionRollsBack ==
    \A i \in 1..Len(balls) : \A deltaTime \in DeltaTimes :
        \A offset \in CorrectionOffsets : \A coin \in BOOLEAN :
            LET moved == MovedBall(balls[i], deltaTime)
                after == ballUpdateReported(balls[i], deltaTime, dimensions,
                                            offset, now, coin)
            IN  (/\ ~isDead(after)
                 /\ ~isCollisionInCooldown(moved, 1, now)
                 /\ CorrectionTooLarge(moved, Reported(offset, moved)))
                => /\ SameMotion(after, balls[i])
                   /\ after.lastCollisionTime[1] = now

\* an update() has just rolled a moving entity back: the collision time is
\* new, position and velocity are those from before the update
C29_Witness ==
    /\ frames > 0
    /\ \E i \in 1..Len(balls) :
           /\ ~isDead(balls[i])
           /\ ballsPre[i].lastCollisionTime[1] # now
           /\ balls[i].lastCollisionTime[1] = now
           /\ balls[i].vx # 0 \/ balls[i].vy # 0
           /\ SameMotion(balls[i], ballsPre[i])

\* the entities one frame after construction in the spread-out layout, with
\* a first line just breached: the state the breached runs start from
BreachedStateReached ==
    /\ frames = 1
    /\ now = 0
    /\ Len(lines) = 1
    /\ lines[1].isDisappearing /\ lines[1].disappearProgress = 0
    /\ currentLine = NoLine /\ ~isDrawing /\ ~hasStartedInfection
    /\ balls = initializeBalls([i \in 1..BallCount |->
                                   MovedPlacements[((i - 1) % Len(MovedPlacements)) + 1]])

----------------------------------------------------------------------------
(* Reflection, deaths, drawing state, line queries (C31 .. C39) *)

\* the component of the velocity of b along the normal n, times NormalUnit
AlongNormal(b, n) == b.vx * n.x + b.vy * n.y

\* in the update() from balls to ballsMid', entity i noted a collision with
\* the line at place k, and with no line before it
FirstNoted(i, k) ==
    /\ ballsMid'[i].lastCollisionTime[k] = now
    /\ balls[i].lastCollisionTime[k] # now
    /\ \A j \in 1..(k - 1) :
           ballsMid'[i].lastCollisionTime[j] = balls[i].lastCollisionTime[j]

\* C31: when an update() has snapped an entity off a line and reflected its
\* velocity about the collision normal n, the velocity does not point into
\* the line: its component along n is not negative, whichever way the
\* entity was moving at the moment of contact.
C31_ReflectedAwayFromLine ==
    [][frames' = frames + 1 =>
          \A i \in 1..Len(balls) : \A k \in 1..Len(lines) :
              \A deltaTime \in DeltaTimes :
                  LET moved == MovedBall(balls[i], deltaTime)
                      collision == getCollisionInfo(lines[k], moved)
                  IN  (/\ FirstNoted(i, k)
                       /\ ~isDead(ballsMid'[i])
                       /\ collision.collides
                       /\ ~CorrectionTooLarge(moved, collision)
                       /\ Len(lines) = 1)
                      => AlongNormal(ballsMid'[i], collision.normal) >= 0]_vars

\* C32: under the operations of the simulation an entity that is Dead after
\* a step was Dead before it, or the step is an update() in whose
\* per-entity update it died, and before that update it was Infected with
\* at least INFECTION_DURATION elapsed since its infection; a Healthy
\* entity is never Dead after one step.
C32_DeathOnlyByExpiredInfection ==
    [][\A i \in 1..Len(balls') :
          (isDead(balls'[i]) /\ ~isDead(balls[i])) =>
              /\ frames' = frames + 1
              /\ isDead(ballsMid'[i])
              /\ isInfected(balls[i])
              /\ now - balls[i].infectedTime >= INFECTION_DURATION]_vars

\* the last update() killed an entity whose infection had run its duration
C32_Witness ==
    /\ balls # ballsPre
    /\ \E i \in 1..Len(balls) :
           /\ isDead(balls[i])
           /\ isDead(ballsMid[i])
           /\ isInfected(ballsPre[i])
           /\ now - ballsPre[i].infectedTime >= INFECTION_DURATION
           /\ \E j \in 1..Len(balls) : ~isDead(balls[j])

\* C33: in every state the operations of the simulation reach, while
\* hasStartedInfection is false every entity is Healthy.
C33_NoInfectionBeforeStart ==
    ~hasStartedInfection =>
        \A i \in 1..Len(balls) : balls[i].color = "green" /\ ~isInfected(balls[i])

\* frames have run over drawn lines, entities have moved, and the infection
\* has not been started
C33_Witness ==
    /\ ~hasStartedInfection
    /\ frames > 1
    /\ Len(lines) > 0
    /\ balls # ballsPre
    /\ Len(balls) > 1

\* C34: isDrawing is true exactly when there is a line in progress, and
\* the line in progress is no member of the line set.
C34_DrawingIffLineInProgress ==
    /\ isDrawing = (currentLine # NoLine)
    /\ currentLine # NoLine => \A k \in 1..Len(lines) : lines[k] # currentLine

\* a line is in progress next to a line of the set drawn over the same
\* points
C34_Witness ==
    /\ isDrawing
    /\ currentLine # NoLine
    /\ \E k \in 1..Len(lines) : lines[k].points = currentLine.points

\* C35: a step of startLine() taken while a line is in progress leaves the
\* line set as it was and puts a new line of one point, neither complete
\* nor disappearing, in the place of the earlier one; and whenever a step
\* adds a line to the line set, that line is drawn over the points of the
\* line in progress at that step (with or without the point just offered),
\* so a line that was replaced is never added afterwards.
C35_StartLineReplaces ==
    [][/\ replacedLine' # NoLine =>
              /\ replacedLine' = currentLine
              /\ lines' = lines
              /\ isDrawing'
              /\ currentLine' # NoLine
              /\ Len(currentLine'.points) = 1
              /\ ~currentLine'.isComplete
              /\ ~currentLine'.isDisappearing
       /\ Len(lines') > Len(lines) =>
              /\ currentLine # NoLine
              /\ \E line \in {currentLine} \cup
                             {addPoint(currentLine, p.x, p.y) : p \in DrawPoints} :
                     lines'[Len(lines')].points = line.points]_vars

\* startLine() has just replaced a line of two points, and no line of the
\* set is drawn over those points
C35_Witness ==
    /\ replacedLine # NoLine
    /\ Len(replacedLine.points) >= 2
    /\ isDrawing
    /\ Len(currentLine.points) = 1
    /\ \A k \in 1..Len(lines) : lines[k].points # replacedLine.points

\* the lines the two queries are compared on in a state
QueriedLines ==
    DrawnLines \cup {lines[k] : k \in 1..Len(lines)}
               \cup (IF currentLine = NoLine THEN {} ELSE {currentLine})

\* C36: for every line and every entity, collidesWithBall(entity) is true
\* exactly when getCollisionInfo(entity).collides is true.
C36_QueriesAgree ==
    \A line \in QueriedLines : \A i \in 1..Len(balls) :
        /\ collidesWithBall(line, balls[i]) = getCollisionInfo(line, balls[i]).collides
        /\ collidesWithBall(line, ballsMid[i]) = getCollisionInfo(line, ballsMid[i]).collides

\* both queries answer true for an entity that is within reach of a later
\* segment of a line and not of its first, and both answer false for an
\* entity and a line of at least one segment
C36_Witness ==
    /\ \E line \in QueriedLines : \E i \in 1..Len(balls) :
           /\ Len(line.points) > 2
           /\ collidesWithBall(line, balls[i])
           /\ getCollisionInfo(line, balls[i]).collides
           /\ ~AnySegmentWithin(SubSeq(line.points, 1, 2), 1, balls[i])
    /\ \E line \in QueriedLines : \E i \in 1..Len(balls) :
           /\ Len(line.points) > 1
           /\ ~collidesWithBall(line, balls[i])
           /\ ~getCollisionInfo(line, balls[i]).collides
    /\ balls # ballsPre

\* every two consecutive points are more than the minimum spacing apart
Spaced(points) ==
    \A k \in 1..(Len(points) - 1) :
        DistSq(points[k].x, points[k].y, points[k + 1].x, points[k + 1].y)
            > Sq(MIN_POINT_DISTANCE)

\* where a point is offered, relative to the last stored point: on it, at
\* the minimum spacing exactly, just within it, just beyond it, far away
OfferOffsets ==
    {<<0, 0>>, <<3, 4>>, <<-5, 0>>, <<0, 4>>, <<4, 4>>, <<0, -6>>, <<-40, 30>>}

\* C37: the points of every line built by addPoint calls are pairwise, in
\* storage order, more than MIN_POINT_DISTANCE apart; addPoint keeps the
\* stored points as they are and appends at most the offered one; a point
\* offered within the spacing of the last stored point is dropped, and any
\* other offered point is appended.
C37_PointsSpacedAndAppendOnly ==
    \A line \in QueriedLines \cup {NewLine} :
        /\ Spaced(line.points)
        /\ \A o \in OfferOffsets :
               LET n == Len(line.points)
                   x == IF n = 0 THEN o[1] ELSE line.points[n].x + o[1]
                   y == IF n = 0 THEN o[2] ELSE line.points[n].y + o[2]
                   after == addPoint(line, x, y)
                   within == n > 0 /\ Sq(o[1]) + Sq(o[2]) <= Sq(MIN_POINT_DISTANCE)
               IN  /\ Len(after.points) \in {n, n + 1}
                   /\ SubSeq(after.points, 1, n) = line.points
                   /\ Spaced(after.points)
                   /\ within => after = line
                   /\ ~within => after.points = Append(line.points, [x |-> x, y |-> y])

\* a line of two points is in progress; the point last stored and a point at
\* exactly the minimum spacing from it are dropped when offered, a point
\* just beyond the spacing is stored
C37_Witness ==
    /\ isDrawing
    /\ Len(currentLine.points) = 2
    /\ LET last == currentLine.points[2]
       IN  /\ addPoint(currentLine, last.x, last.y) = currentLine
           /\ addPoint(currentLine, last.x + 3, last.y + 4) = currentLine
           /\ Len(addPoint(currentLine, last.x + 4, last.y + 4).points) = 3

\* C38: an entity stays Infected for settings.infectionDuration: an update()
\* resolves an Infected entity (to Dead or Healthy) only when at least the
\* configured duration has elapsed since it was infected.
C38_ConfiguredDurationDecides ==
    [][frames' = frames + 1 =>
           \A i \in 1..Len(balls) :
               (isInfected(balls[i]) /\ ~isInfected(ballsMid'[i])) =>
                   now - balls[i].infectedTime >= infectionDuration]_vars

\* C39: when a game ends, handleGameOver asks isLeaderboardWorthy('score', .)
\* about the survivor count of the game that just ended, not about the
\* score held before the end-of-game score update.
C39_DialogAsksAboutSurvivors ==
    (isGameOver /\ survivorsAtEnd # Null) => scoreAsked = survivorsAtEnd

============================================================================
